---------------------------- MODULE Spec2Model ----------------------------
(***************************************************************************)
(* A model of S3-netcdf-python: the s3Dataset / s3Group / s3Variable       *)
(* classes (src/unnamed/part_000) and the s3FileObject byte stream         *)
(* (src/S3netCDF4/Backends/_s3FileObject.pyx).                             *)
(*                                                                         *)
(* Four specifications share the variables:                                *)
(*   Spec        opening a dataset;                                        *)
(*   SpecCreate  creating groups, dimensions and variables in a dataset    *)
(*               opened for writing;                                       *)
(*   SpecData    slice writes, slice reads and close on a dataset that     *)
(*               holds one partitioned variable;                           *)
(*   SpecFile    one s3FileObject: connect, write, flush, close.           *)
(*                                                                         *)
(* The FileManager, the CFA classes and the CFA parser are not part of the *)
(* source at hand; the definitions that stand for them follow the          *)
(* specification document and are marked as such where they are defined.   *)
(***************************************************************************)
EXTENDS Integers, Sequences, FiniteSets, TLC

VARIABLES
    ds,          \* the s3Dataset object: state, _mode, _creation_params, _cfa_dataset
    files,       \* FileManager.files: the open-file table, in insertion order
    store,       \* the backing store: url -> bytes of the object, or NoObject
    cfa,         \* CFA side: groups, their dimensions and variables
    nc,          \* netCDF4 side of the master file: groups, dimensions, variables
    s3tab,       \* _s3_groups / _s3_dimensions / _s3_variables tables
    pvar,        \* the partitioned variable of SpecData: partitions written, files created
    last,        \* outcome of the last operation (what the caller saw)
    close_log,   \* order of the calls close() made
    fo,          \* one s3FileObject
    s3           \* the object store behind the s3FileObject and its connection pool

vars == <<ds, files, store, cfa, nc, s3tab, pvar, last, close_log, fo, s3>>

----------------------------------------------------------------------------
(* Bounds of the model.                                                    *)

\* length of the one dimension of the partitioned variable
VarLen == 3
\* subarray_shape given at createVariable: cells per subarray
SubLen == 2
\* number of create calls made on one dataset
MaxCalls == 3

\* the data values a caller writes
Values == {1, 2}
NumValues == Cardinality(Values)

\* the value an unwritten cell of a subarray variable reads as: the subarray
\* field variable is created without a fill_value
NcDefaultFill == 0
\* the _FillValue attribute of the variable in the master file
FillValue == -1
\* Python's None, for the fields that hold a name
None == "None"

\* a data_object that was never assigned
NoData == [present |-> FALSE, writable |-> FALSE, cells |-> <<>>, closed |-> FALSE]
\* an object the store does not hold
NoObject == [exists |-> FALSE, header |-> <<>>, cfa |-> FALSE, cells |-> <<>>]
\* no bytes
NoBytes == [present |-> FALSE, cells |-> <<>>]

----------------------------------------------------------------------------
(* OpenFileRecord states, as named by s3Variable.__setitem__/__getitem__.  *)

OPEN_NEW_IN_MEMORY == "OPEN_NEW_IN_MEMORY"
OPEN_NEW_ON_DISK == "OPEN_NEW_ON_DISK"
OPEN_EXISTS_IN_MEMORY == "OPEN_EXISTS_IN_MEMORY"
OPEN_EXISTS_ON_DISK == "OPEN_EXISTS_ON_DISK"
DOES_NOT_EXIST == "DOES_NOT_EXIST"

MasterFile == <<"master", 0>>
SubarrayFile(p) == <<"subarray", p>>

\* position of url in the table, 0 when it has no record
FileIndex(tab, url) ==
    IF \E i \in 1..Len(tab) : tab[i].url = url
    THEN CHOOSE i \in 1..Len(tab) : tab[i].url = url
    ELSE 0

HasRecord(tab, url) == FileIndex(tab, url) # 0

Record(tab, url) == tab[FileIndex(tab, url)]

\* first-time open state by placement: remote files are streamed in memory,
\* local files live on disk
NewState(remote) == IF remote THEN OPEN_NEW_IN_MEMORY ELSE OPEN_NEW_ON_DISK

\* what a record that is already in the table reports on the next request
Promote(state) ==
    CASE state = OPEN_NEW_IN_MEMORY -> OPEN_EXISTS_IN_MEMORY
      [] state = OPEN_NEW_ON_DISK -> OPEN_EXISTS_ON_DISK
      [] OTHER -> state

NewRecord(url, state, mode) ==
    [url |-> url, open_state |-> state, mode |-> mode,
     file_object |-> IF state = DOES_NOT_EXIST THEN None ELSE "stream",
     data_object |-> NoData, closed |-> FALSE, payload |-> NoBytes]

\* FileManager.request_file(url, size, mode): the table after the request.
\* A record in the table is returned as it is, its NEW state promoted to
\* EXISTS; a DOES_NOT_EXIST record answers a later write request as a first
\* open.  A url with no record gets one: NEW for a write, NEW for a read of an
\* object the store holds, DOES_NOT_EXIST for a read of an absent object.
RequestFile(tab, sto, url, mode, remote) ==
    LET i == FileIndex(tab, url) IN
    IF i # 0
    THEN IF tab[i].open_state = DOES_NOT_EXIST
         THEN IF mode = "w"
              THEN [tab EXCEPT ![i] = NewRecord(url, NewState(remote), mode)]
              ELSE tab
         ELSE [tab EXCEPT ![i].open_state = Promote(@)]
    ELSE IF mode = "r" /\ ~sto[url].exists
         THEN Append(tab, NewRecord(url, DOES_NOT_EXIST, mode))
         ELSE Append(tab, NewRecord(url, NewState(remote), mode))

\* request_file read to the letter: a record that is in the table is returned
\* whatever its state, so that a DOES_NOT_EXIST record left by a read answers
\* a later write request with DOES_NOT_EXIST
RequestRecorded(tab, sto, url, mode, remote) ==
    LET i == FileIndex(tab, url) IN
    IF i # 0
    THEN [tab EXCEPT ![i].open_state = Promote(@)]
    ELSE RequestFile(tab, sto, url, mode, remote)

\* the request as the loop of a slice operation makes it
Request(as_recorded, tab, sto, url, mode, remote) ==
    IF as_recorded
    THEN RequestRecorded(tab, sto, url, mode, remote)
    ELSE RequestFile(tab, sto, url, mode, remote)


----------------------------------------------------------------------------
(* The dataset side as one record, so that operations compose.             *)

Tiles == 0..((VarLen + SubLen - 1) \div SubLen) - 1

AllFiles == {MasterFile} \cup {SubarrayFile(p) : p \in Tiles}

NoLast ==
    [op |-> "none", exc |-> None, requested |-> FALSE, lo |-> 0, hi |-> 0,
     scalar |-> FALSE, data |-> <<>>, result |-> <<>>, args |-> <<>>]

\* the s3Dataset before __init__ has run
NoDataset ==
    [state |-> "none", mode |-> None, format |-> None, cfa_version |-> None,
     cfa_dataset |-> FALSE, remote |-> FALSE, file_manager |-> FALSE,
     nc_dataset |-> FALSE, file_type |-> None, calls |-> 0]

\* attribute keys: an attribute of the data, and a name that is one of the
\* private attributes of s3Variable
AttrKeys == {"units", "_nc_var"}

\* a key that a metadata dictionary or a file object does not hold
Absent == 0

NoAttrs == [k \in AttrKeys |-> Absent]

\* cfa.metadata and nc.attrs are the metadata dictionary of the CFA object and
\* the attributes of the netCDF object behind the one s3 object (attr_obj)
\* that SpecAttr follows
Blank(sto) ==
    [ds |-> NoDataset, files |-> <<>>, store |-> sto,
     cfa |-> [groups |-> {}, dims |-> {}, vars |-> {}, metadata |-> NoAttrs,
              attr_obj |-> None],
     nc |-> [groups |-> {}, dims |-> {}, vars |-> {}, attrs |-> NoAttrs],
     s3tab |-> [groups |-> {}, dims |-> {}, vars |-> {}, stale |-> {}],
     pvar |-> [partitions |-> [p \in Tiles |-> 0], creates |-> [p \in Tiles |-> 0],
               has_fill |-> FALSE],
     last |-> NoLast, close_log |-> <<>>]

Current ==
    [ds |-> ds, files |-> files, store |-> store, cfa |-> cfa, nc |-> nc,
     s3tab |-> s3tab, pvar |-> pvar, last |-> last, close_log |-> close_log]

Becomes(S) ==
    \E T \in {S} :
        /\ ds' = T.ds
        /\ files' = T.files
        /\ store' = T.store
        /\ cfa' = T.cfa
        /\ nc' = T.nc
        /\ s3tab' = T.s3tab
        /\ pvar' = T.pvar
        /\ last' = T.last
        /\ close_log' = T.close_log

Starts(S) ==
    /\ ds = S.ds
    /\ files = S.files
    /\ store = S.store
    /\ cfa = S.cfa
    /\ nc = S.nc
    /\ s3tab = S.s3tab
    /\ pvar = S.pvar
    /\ last = S.last
    /\ close_log = S.close_log

\* an operation that ends by raising exc
Raise(S, op, exc) == [S EXCEPT !.last = [NoLast EXCEPT !.op = op, !.exc = exc]]

----------------------------------------------------------------------------
(* s3Dataset._interpret_netCDF_filetype on the first bytes of the master.  *)
(* Bytes are integers, as indexing a Python 3 bytes object gives them.     *)

HDF == <<72, 68, 70>>
CDF == <<67, 68, 70>>

\* data[a:b] of a bytes object
Slice(data, a, b) == [i \in 1..(b - a) |-> data[a + i]]

\* an int compared with a bytes or str literal (data[0] == b'\016',
\* file_version == '2') is never equal in Python 3
IntEqualsLiteral(i, literal) == FALSE

\* a variant that takes every header for the hdf-based format
AcceptsAnyHeader(data) == [file_type |-> "NETCDF4", file_version |-> 5]

interpret_netCDF_filetype(data) ==
    IF Slice(data, 1, 4) = HDF
    THEN [file_type |-> "NETCDF4", file_version |-> 5]
    ELSE IF /\ IntEqualsLiteral(data[1], 14)
            /\ IntEqualsLiteral(data[2], 3)
            /\ IntEqualsLiteral(data[3], 19)
            /\ IntEqualsLiteral(data[4], 1)
    THEN [file_type |-> "NETCDF4", file_version |-> 4]
    ELSE IF Slice(data, 0, 3) = CDF
    THEN IF data[4] = 1
         THEN [file_type |-> "NETCDF3_CLASSIC", file_version |-> 1]
         ELSE IF IntEqualsLiteral(data[4], 2)
         THEN [file_type |-> "NETCDF3_64BIT_OFFSET", file_version |-> data[4]]
         ELSE IF IntEqualsLiteral(data[4], 5)
         THEN [file_type |-> "NETCDF3_64BIT_DATA", file_version |-> data[4]]
         ELSE [file_type |-> "NOT_NETCDF", file_version |-> 1]
    ELSE [file_type |-> "NOT_NETCDF", file_version |-> 0]

----------------------------------------------------------------------------
(* s3Dataset.__init__                                                      *)

\* the convention check that opens __init__
RejectsConvention(cfa_version, format) ==
    cfa_version = "0.5" /\ format \in {"CFA3", "NETCDF3_CLASSIC"}

\* 'b' in mode
HasB(mode) == mode \in {"rb", "wb"}

\* a variant that hands the format to netCDF4 as it was given
FileTypeAsGiven(format) == format

\* mode 'w': the formats for which a CFADataset is made
IsAggregatedFormat(format) == format \in {"CFA4", "DEFAULT", "CFA3"}

\* mode 'w': the file_type handed to netCDF4 and kept in _creation_params
FileTypeOf(format) ==
    CASE format \in {"CFA4", "DEFAULT"} -> "NETCDF4"
      [] format = "CFA3" -> "NETCDF3_CLASSIC"
      [] OTHER -> format

\* the branch of __init__ for mode 'w': format, _cfa_dataset, data object
OpenWrite(S, format) ==
    LET aggregated == IsAggregatedFormat(format)
        file_type == FileTypeOf(format)
        i == FileIndex(S.files, MasterFile)
    IN  [S EXCEPT
            !.ds.state = "open",
            !.ds.format = file_type,
            !.ds.file_type = file_type,
            !.ds.cfa_dataset = aggregated,
            !.ds.nc_dataset = TRUE,
            !.cfa.groups = IF aggregated THEN {"root"} ELSE {},
            !.files[i].data_object =
                [present |-> TRUE, writable |-> TRUE, cells |-> <<>>, closed |-> FALSE]]

\* the branch of __init__ for mode 'r': magic number, data object, CFA parse.
\* The parse of a CFA master (CFA_netCDFParser.read) is not in the source: it
\* is taken to attach the CFA dataset with its root group.
OpenRead(S) ==
    LET i == FileIndex(S.files, MasterFile)
        rec == S.files[i]
    IN  IF rec.file_object = None
        THEN [Raise(S, "open", "AttributeError") EXCEPT
                 !.ds.state = "failed", !.last.requested = TRUE]
        ELSE LET ft == interpret_netCDF_filetype(S.store[MasterFile].header) IN
             IF ft.file_type = "NOT_NETCDF"
             THEN [Raise(S, "open", "IOError") EXCEPT
                      !.ds.state = "failed", !.last.requested = TRUE]
             ELSE [S EXCEPT
                     !.ds.state = "open",
                     !.ds.file_type = ft.file_type,
                     !.ds.nc_dataset = TRUE,
                     !.ds.cfa_dataset = S.store[MasterFile].cfa,
                     !.cfa.groups = IF S.store[MasterFile].cfa THEN {"root"} ELSE {},
                     !.files[i].data_object =
                         IF S.ds.remote THEN NoData
                         ELSE [present |-> TRUE, writable |-> FALSE,
                               cells |-> <<>>, closed |-> FALSE]]

\* master is what the store holds under the file name when it is opened for
\* reading; a dataset opened for writing starts on an empty location
OpenBody(S00, mode, format, cfa_version, remote, master) ==
    LET S0 == IF mode \in {"r", "rb", "r+"}
              THEN [S00 EXCEPT !.store[MasterFile] = master]
              ELSE S00
    IN
    IF RejectsConvention(cfa_version, format)
    THEN [Raise(S0, "open", "APIException") EXCEPT !.ds.state = "failed"]
    ELSE
    LET S1 == [S0 EXCEPT !.ds.file_manager = TRUE, !.ds.mode = mode,
                         !.ds.remote = remote, !.ds.cfa_version = cfa_version,
                         !.ds.format = format,
                         !.last = [NoLast EXCEPT !.op = "open"]]
    IN  IF HasB(mode)
        THEN \* fh_mode was never assigned
             [Raise(S1, "open", "UnboundLocalError") EXCEPT !.ds.state = "failed"]
        ELSE
        LET S2 == [S1 EXCEPT
                      !.files = RequestFile(S1.files, S1.store, MasterFile, mode, remote),
                      !.last.requested = TRUE]
        IN  IF mode = "w" THEN OpenWrite(S2, format)
            ELSE IF mode = "r" THEN OpenRead(S2)
            ELSE [Raise(S2, "open", "APIException") EXCEPT
                     !.ds.state = "failed", !.last.requested = TRUE]

\* the call as the caller sees it: its arguments beside its outcome
DoOpen(S00, mode, format, cfa_version, remote, master) ==
    [OpenBody(S00, mode, format, cfa_version, remote, master)
     EXCEPT !.last.args = <<mode, format, cfa_version>>]


----------------------------------------------------------------------------
(* Groups, dimensions and variables.  A parent is the dataset ("/") or a   *)
(* group of it; the CFA group of the dataset is "root".                    *)

Dataset == "/"

CfaGroupOf(parent) == IF parent = Dataset THEN "root" ELSE parent

\* the CFA classes refuse a name that is already in use, and a variable over
\* a dimension its group does not declare (APIMisuse: name collision)
CfaRefusesVariable(S, grp, name, dimensions) ==
    \/ \E v \in S.cfa.vars : v.grp = grp /\ v.name = name
    \/ \E i \in 1..Len(dimensions) : <<grp, dimensions[i]>> \notin S.cfa.dims

CfaRefusesDimension(S, grp, name) == <<grp, name>> \in S.cfa.dims

\* netCDF4 finds a dimension in the group or in the dataset above it
NcHasDimension(S, parent, name) ==
    <<parent, name>> \in S.nc.dims \/ <<Dataset, name>> \in S.nc.dims

NcHasVariable(S, parent, name) ==
    \E v \in S.nc.vars : v.parent = parent /\ v.name = name

\* _s3_variables[varname] = s3Variable(): a fresh entry under the name
BlankVariable(S, parent, name) ==
    [S EXCEPT !.s3tab.vars =
        {v \in @ : ~(v.parent = parent /\ v.name = name)} \cup
        {[parent |-> parent, name |-> name, cfa_var |-> FALSE,
          cfa_dim |-> FALSE, nc_var |-> FALSE]}]

SetVariable(S, parent, name, is_var, is_dim) ==
    [S EXCEPT !.s3tab.vars =
        {v \in @ : ~(v.parent = parent /\ v.name = name)} \cup
        {[parent |-> parent, name |-> name, cfa_var |-> is_var,
          cfa_dim |-> is_dim, nc_var |-> TRUE]}]

\* a variant that classifies by the partitioning arguments of the call
ClassifiesByArguments(S, parent, name, subarray_given, max_subarray_size) ==
    S.ds.cfa_dataset /\ (subarray_given \/ max_subarray_size > 0)

\* s3Variable.create: whether the new variable gets a CFA variable.  In a CFA
\* dataset every variable that is not a dimension variable does.
IsFieldVariable(S, parent, name, subarray_given, max_subarray_size) ==
    S.ds.cfa_dataset /\ <<CfaGroupOf(parent), name>> \notin S.cfa.dims

\* s3Variable.create: whether the initial partition information is written
WritesPartitionInfo(is_field, dimensions) == is_field /\ Len(dimensions) # 0

\* a variant that gives the master-file variable the dimensions of the call
NcDimensionsAsGiven(is_field, name, dimensions) == dimensions

\* s3Variable.create: nc_dimensions in a CFA dataset, (name,) for a dimension
\* variable and none for a field variable
NcDimensions(is_field, name, dimensions) ==
    IF is_field THEN <<>> ELSE <<name>>

\* the tail of s3Variable.create: the variable in the master file
NcCreateVariable(S, parent, name, nc_dimensions, is_var, is_dim) ==
    IF NcHasVariable(S, parent, name)
    THEN Raise(S, "createVariable", "RuntimeError")
    ELSE IF \E i \in 1..Len(nc_dimensions) : ~NcHasDimension(S, parent, nc_dimensions[i])
    THEN Raise(S, "createVariable", "KeyError")
    ELSE [SetVariable(S, parent, name, is_var, is_dim) EXCEPT
             !.nc.vars = @ \cup {[parent |-> parent, name |-> name,
                                   dimensions |-> nc_dimensions]},
             !.last = [NoLast EXCEPT !.op = "createVariable"]]

\* s3Dataset.createVariable / s3Group.createVariable with s3Variable.create
CreateVariableBody(S0, parent, name, is_tuple, dimensions, subarray_given, max_subarray_size) ==
    LET S1 == BlankVariable(S0, parent, name)
        grp == CfaGroupOf(parent)
    IN  IF ~is_tuple
        THEN Raise(S1, "createVariable", "APIException")
        ELSE IF ~S1.ds.cfa_dataset
        THEN NcCreateVariable(S1, parent, name, dimensions, FALSE, FALSE)
        ELSE IF grp \notin S1.cfa.groups
        THEN Raise(S1, "createVariable", "CFAError")
        ELSE IF ~IsFieldVariable(S1, parent, name, subarray_given, max_subarray_size)
        THEN NcCreateVariable(S1, parent, name,
                              NcDimensions(FALSE, name, dimensions), FALSE, TRUE)
        ELSE IF CfaRefusesVariable(S1, grp, name, dimensions)
        THEN Raise(S1, "createVariable", "CFAError")
        ELSE
        LET info == WritesPartitionInfo(TRUE, dimensions)
            S2 == [S1 EXCEPT !.cfa.vars = @ \cup
                      {[grp |-> grp, name |-> name, dimensions |-> dimensions,
                        part_info |-> info /\ S1.ds.cfa_version \in {"0.5", "0.4"}]}]
        IN  IF info /\ S1.ds.cfa_version \notin {"0.5", "0.4"}
            THEN Raise(S2, "createVariable", "CFAError")
            ELSE NcCreateVariable(S2, parent, name,
                                  NcDimensions(TRUE, name, dimensions), TRUE, FALSE)

\* the call as the caller sees it: its arguments beside its outcome
DoCreateVariable(S0, parent, name, is_tuple, dimensions, subarray_given, max_subarray_size) ==
    [CreateVariableBody(S0, parent, name, is_tuple, dimensions, subarray_given,
                        max_subarray_size)
     EXCEPT !.last.args = <<parent, name, subarray_given, max_subarray_size>>]

\* s3Dataset.createDimension / s3Group.createDimension with s3Dimension.create
DoCreateDimension(S0, parent, name) ==
    IF parent # Dataset /\ <<parent, name>> \in S0.nc.dims
    THEN Raise(S0, "createDimension", "APIException")
    ELSE
    LET S1 == [S0 EXCEPT !.s3tab.dims = @ \cup {<<parent, name>>}]
        grp == CfaGroupOf(parent)
    IN  IF S1.ds.cfa_dataset /\ (grp \notin S1.cfa.groups \/ CfaRefusesDimension(S1, grp, name))
        THEN Raise(S1, "createDimension", "CFAError")
        ELSE
        LET S2 == IF S1.ds.cfa_dataset
                  THEN [S1 EXCEPT !.cfa.dims = @ \cup {<<grp, name>>}]
                  ELSE S1
        IN  IF <<parent, name>> \in S2.nc.dims
            THEN Raise(S2, "createDimension", "RuntimeError")
            ELSE [S2 EXCEPT !.nc.dims = @ \cup {<<parent, name>>},
                            !.last = [NoLast EXCEPT !.op = "createDimension"]]

\* s3Dataset.createGroup with s3Group.create
\* _s3_groups[groupname] = s3Group(): a fresh object with empty tables under
\* the name.  s3tab.stale holds the names whose s3Group object does not stand
\* for the group of that name: its create raised, or the group was renamed.
DoCreateGroup(S0, name) ==
    LET S1 == [S0 EXCEPT !.s3tab.groups = @ \cup {name},
                         !.s3tab.vars = {v \in @ : v.parent # name},
                         !.s3tab.dims = {d \in @ : d[1] # name}] IN
    IF S1.ds.cfa_dataset /\ name \in S1.cfa.groups
    THEN Raise([S1 EXCEPT !.s3tab.stale = @ \cup {name}], "createGroup", "CFAError")
    ELSE [S1 EXCEPT !.cfa.groups = IF S1.ds.cfa_dataset THEN @ \cup {name} ELSE @,
                    !.nc.groups = @ \cup {name},
                    !.s3tab.stale = @ \ {name},
                    !.last = [NoLast EXCEPT !.op = "createGroup"]]

\* the s3Group objects a call can be made on: those that stand for the group
\* of their name
LiveGroups(S) == S.s3tab.groups \ S.s3tab.stale


----------------------------------------------------------------------------
(* Inputs of the dataset operations.                                       *)

Modes == {"r", "w", "a", "r+", "rb", "wb"}
Formats == {"DEFAULT", "CFA4", "CFA3", "NETCDF4", "NETCDF3_CLASSIC",
            "NETCDF3_64BIT_OFFSET", "NETCDF3_64BIT_DATA"}
CfaVersions == {"0.4", "0.5", "0.3"}
GroupNames == {"g"}
DimNames == {"x"}
VarNames == {"x", "t"}
DimensionArgs == {<<>>, <<"x">>}

\* first bytes of a master file: HDF5, the version-4 magic number, CDF1, CDF2,
\* CDF5 and a zip archive
Headers == {<<137, 72, 68, 70>>, <<14, 3, 19, 1>>, <<67, 68, 70, 1>>,
            <<67, 68, 70, 2>>, <<67, 68, 70, 5>>, <<80, 75, 3, 4>>}

MasterObjects ==
    {NoObject} \cup
    {[exists |-> TRUE, header |-> h, cfa |-> c, cells |-> <<>>] :
        h \in Headers, c \in BOOLEAN}

\* the s3FileObject before __init__ has run, and the object store it talks
\* to; they stay so while the dataset specifications run
\* an s3FileObject nothing was made of yet.  connected: _conn_obj is set;
\* holds: the connections it took from the pool and did not give back;
\* wildcard: the path has a * or a ?; result and ret: what the last read and
\* the last seek returned; reclosed: the last call was a close of an object
\* that was closed already; conn_none: _conn_obj is set to None; failed: a
\* call of the botocore client was set to fail during the last call
NoFileObject ==
    [mode |-> None, connected |-> FALSE, closed |-> FALSE, seek_pos |-> 0,
     buffer |-> <<>>, current_part |-> 0, upload_id |-> 0, writes |-> 0,
     wrote |-> <<>>, op |-> "none", exc |-> None, holds |-> 0,
     multipart_download |-> TRUE, wildcard |-> FALSE, result |-> <<>>,
     ret |-> 0, reclosed |-> FALSE, args |-> <<>>, conn_none |-> FALSE,
     max_parts |-> 0, failed |-> FALSE]

\* the object store behind the bucket/key: gets counts the get_object calls
NoS3 ==
    [exists |-> FALSE, object |-> <<>>, bucket |-> FALSE, uploads |-> 0,
     puts |-> 0, held |-> 0, released |-> 0, gets |-> 0]

----------------------------------------------------------------------------
(* Spec: opening a dataset and creating groups, dimensions and variables.  *)

EmptyStore == [u \in AllFiles |-> NoObject]

Init ==
    /\ Starts(Blank(EmptyStore))
    /\ fo = NoFileObject
    /\ s3 = NoS3

Open ==
    /\ ds.state = "none"
    /\ \E mode \in Modes, format \in Formats, v \in CfaVersions, remote \in BOOLEAN,
          master \in MasterObjects :
          Becomes(DoOpen(Current, mode, format, v, remote, master))
    /\ UNCHANGED <<fo, s3>>

Next == Open

Spec == Init /\ [][Next]_vars

----------------------------------------------------------------------------
(* SpecCreate: groups, dimensions and variables created in a dataset that  *)
(* was opened for writing.                                                 *)

CreateFormats == {"DEFAULT", "NETCDF4"}
CreateVersions == {"0.4", "0.5"}

InitCreate ==
    /\ \E format \in CreateFormats, v \in CreateVersions :
          Starts(DoOpen(Blank(EmptyStore), "w", format, v, TRUE, NoObject))
    /\ fo = NoFileObject
    /\ s3 = NoS3

\* one more call made on the dataset
Counted(S) == [S EXCEPT !.ds.calls = @ + 1]

createGroup ==
    /\ ds.state = "open"
    /\ ds.calls < MaxCalls
    /\ \E name \in GroupNames : Becomes(Counted(DoCreateGroup(Current, name)))
    /\ UNCHANGED <<fo, s3>>

createDimension ==
    /\ ds.state = "open"
    /\ ds.calls < MaxCalls
    /\ \E parent \in {Dataset} \cup LiveGroups(Current), name \in DimNames :
          Becomes(Counted(DoCreateDimension(Current, parent, name)))
    /\ UNCHANGED <<fo, s3>>

createVariable ==
    /\ ds.state = "open"
    /\ ds.calls < MaxCalls
    /\ \E parent \in {Dataset} \cup LiveGroups(Current), name \in VarNames,
          is_tuple \in BOOLEAN, dimensions \in DimensionArgs,
          subarray_given \in BOOLEAN, max_subarray_size \in {0, 1} :
          Becomes(Counted(DoCreateVariable(Current, parent, name, is_tuple,
                                           dimensions, subarray_given,
                                           max_subarray_size)))
    /\ UNCHANGED <<fo, s3>>

NextCreate == createGroup \/ createDimension \/ createVariable

SpecCreate == InitCreate /\ [][NextCreate]_vars


----------------------------------------------------------------------------
(* The partitioned variable: one dimension of VarLen cells, cut into       *)
(* subarrays of SubLen cells, the last one shorter when SubLen does not    *)
(* divide VarLen.  Slices are lo:hi with step 1.                           *)

Min(a, b) == IF a < b THEN a ELSE b
Max(a, b) == IF a > b THEN a ELSE b

TileStart(p) == p * SubLen
TileEnd(p) == Min((p + 1) * SubLen, VarLen)
TileShape(p) == TileEnd(p) - TileStart(p)

Slices == {<<lo, hi>> \in (0..VarLen) \X (0..VarLen) : lo < hi}

\* CFAVariable.__getitem__(elem): one index entry for every partition the slice
\* meets, in the order of the partition index; source is the slice inside the
\* subarray, target the slice inside the caller's array
RECURSIVE IndexFrom(_, _, _)
IndexFrom(p, lo, hi) ==
    IF p \notin Tiles
    THEN <<>>
    ELSE IF Max(lo, TileStart(p)) < Min(hi, TileEnd(p))
    THEN <<[partition |-> p, file |-> SubarrayFile(p),
            source |-> <<Max(lo, TileStart(p)) - TileStart(p),
                         Min(hi, TileEnd(p)) - TileStart(p)>>,
            target |-> <<Max(lo, TileStart(p)) - lo,
                         Min(hi, TileEnd(p)) - lo>>]>>
         \o IndexFrom(p + 1, lo, hi)
    ELSE IndexFrom(p + 1, lo, hi)

IndexList(lo, hi) == IndexFrom(0, lo, hi)

\* a counter that stops at 2: "more than once"
Bump(n) == IF n < 2 THEN n + 1 ELSE n

\* netCDF4 variable[a:b] = data: a scalar fills the slice, an array must have
\* the size of the slice
NcPutFails(a, b, scalar, data) == ~scalar /\ Len(data) # b - a

NcPut(cells, a, b, scalar, data) ==
    [i \in 1..Len(cells) |->
        IF a < i /\ i <= b
        THEN IF scalar THEN data[1] ELSE data[i - a]
        ELSE cells[i]]

\* netCDF4 variable[a:b]
NcGet(cells, a, b) == [i \in 1..(b - a) |-> cells[a + i]]

\* array[a:b] = values, values of size b - a
ArrayPut(array, a, b, values) ==
    [i \in 1..Len(array) |-> IF a < i /\ i <= b THEN values[i - a] ELSE array[i]]

\* __create_subarray_ncfile: a dataset whose field variable holds no data yet
NewSubarray(p) ==
    [present |-> TRUE, writable |-> TRUE,
     cells |-> [i \in 1..TileShape(p) |-> NcDefaultFill], closed |-> FALSE]

\* netCDF4.Dataset(file, mode="r", memory=bytes): the dataset of a stored object
StoredSubarray(object) ==
    [present |-> object.exists, writable |-> FALSE, cells |-> object.cells,
     closed |-> FALSE]

----------------------------------------------------------------------------
(* s3Variable.__setitem__                                                  *)

\* a variant that creates the subarray file on every write
CreatesOnEveryWrite(open_state) == TRUE

\* the open states for which __setitem__ creates the subarray file and
\* records the partition in the master
CreatesSubarray(open_state) ==
    open_state \in {OPEN_NEW_IN_MEMORY, OPEN_NEW_ON_DISK}

\* the open states for which __setitem__ takes the record's data object
UsesDataObject(open_state) ==
    open_state \in {OPEN_EXISTS_IN_MEMORY, OPEN_EXISTS_ON_DISK}

\* what __setitem__ assigns to the slice index.source of the subarray
SetItemPayload(data, index) == data

\* a local variable that was never assigned
Unbound == <<"unbound", 0>>

\* one pass of the loop over index_list.  W carries the dataset record S, the
\* local nc_sa_dataset (the url whose data object it is, or Unbound) and the
\* exception that ended the loop.
SetItemStep(W, index, scalar, data) ==
    LET tab1 == Request(W.as_recorded, W.S.files, W.S.store, index.file, "w",
                        W.S.ds.remote)
        i == FileIndex(tab1, index.file)
        state == tab1[i].open_state
        p == index.partition
        created == CreatesSubarray(state)
        tab2 == IF created
                THEN [tab1 EXCEPT ![i].data_object = NewSubarray(p)]
                ELSE tab1
        pv == IF created
              THEN [W.S.pvar EXCEPT !.creates[p] = Bump(@), !.partitions[p] = Bump(@)]
              ELSE W.S.pvar
        nc_sa == IF created \/ UsesDataObject(state) THEN index.file ELSE W.nc_sa
        S1 == [W.S EXCEPT !.files = tab2, !.pvar = pv]
        payload == SetItemPayload(data, index)
    IN  IF nc_sa = Unbound
        THEN [W EXCEPT !.S = S1, !.exc = "UnboundLocalError"]
        ELSE
        LET j == FileIndex(tab2, nc_sa)
            dobj == tab2[j].data_object
        IN  IF ~dobj.present
            THEN [W EXCEPT !.S = S1, !.nc_sa = nc_sa, !.exc = "TypeError"]
            ELSE IF ~dobj.writable
            THEN [W EXCEPT !.S = S1, !.nc_sa = nc_sa, !.exc = "RuntimeError"]
            ELSE IF NcPutFails(index.source[1], index.source[2], scalar, payload)
            THEN [W EXCEPT !.S = S1, !.nc_sa = nc_sa, !.exc = "IndexError"]
            ELSE [W EXCEPT
                    !.S = [S1 EXCEPT !.files[j].data_object.cells =
                              NcPut(@, index.source[1], index.source[2], scalar, payload)],
                    !.nc_sa = nc_sa]

\* the loop; W.used keeps, for every entry processed, its file and the file
\* whose dataset nc_sa_dataset was when the entry's slab was assigned
RECURSIVE SetItemLoop(_, _, _, _, _)
SetItemLoop(W, index_list, k, scalar, data) ==
    IF k > Len(index_list) \/ W.exc # None
    THEN W
    ELSE LET W1 == SetItemStep(W, index_list[k], scalar, data) IN
         SetItemLoop([W1 EXCEPT !.used = Append(@, <<index_list[k].file, W1.nc_sa>>)],
                     index_list, k + 1, scalar, data)

\* variable[lo:hi] = data on the partitioned variable
DoSetItem(S, lo, hi, scalar, data) ==
    LET W == SetItemLoop([S |-> S, nc_sa |-> Unbound, exc |-> None,
                          as_recorded |-> FALSE, used |-> <<>>],
                         IndexList(lo, hi), 1, scalar, data)
    IN  [W.S EXCEPT !.last = [NoLast EXCEPT !.op = "setitem", !.exc = W.exc,
                                            !.lo = lo, !.hi = hi,
                                            !.scalar = scalar, !.data = data]]

\* the same assignment with the FileManager returning its records as they
\* are; the entries processed are kept with the file each of them used
DoSetItemRecorded(S, lo, hi, scalar, data) ==
    LET W == SetItemLoop([S |-> S, nc_sa |-> Unbound, exc |-> None,
                          as_recorded |-> TRUE, used |-> <<>>],
                         IndexList(lo, hi), 1, scalar, data)
    IN  [W.S EXCEPT !.last = [NoLast EXCEPT !.op = "setitem", !.exc = W.exc,
                                            !.lo = lo, !.hi = hi,
                                            !.scalar = scalar, !.data = data,
                                            !.args = W.used]]


----------------------------------------------------------------------------
(* s3Variable.__getitem__                                                  *)

\* FileManager.request_array: a fresh array of the size of the slice
RequestArray(lo, hi) == [i \in 1..(hi - lo) |-> NcDefaultFill]

\* a variant that opens the stored object on every read
OpensStoredAlways(open_state) == TRUE

\* a variant that opens the stored object for a record that has its dataset
OpensStoredWhenCached(open_state) ==
    open_state \in {OPEN_EXISTS_IN_MEMORY, OPEN_EXISTS_ON_DISK}

\* the open states for which __getitem__ opens the stored object and caches
\* the dataset on the record
OpensStored(open_state) ==
    open_state \in {OPEN_NEW_IN_MEMORY, OPEN_NEW_ON_DISK}

\* the dataset __getitem__ reads an index entry from: the one cached on the
\* record, or the stored object opened anew
ReadSource(record, object, open_state) ==
    IF OpensStored(open_state) THEN StoredSubarray(object) ELSE record.data_object

\* self._nc_var._FillValue: netCDF4 has the attribute only on a variable that
\* was created with a fill_value
HasFillValue(variable) == variable.has_fill

\* one pass of the loop over index_list.  R carries the dataset record S, the
\* target array and the exception that ended the loop.
GetItemStep(R, index) ==
    LET tab1 == Request(R.as_recorded, R.S.files, R.S.store, index.file, "r",
                        R.S.ds.remote)
        i == FileIndex(tab1, index.file)
        state == tab1[i].open_state
    IN  IF state = DOES_NOT_EXIST
        THEN IF ~HasFillValue(R.S.pvar)
             THEN [R EXCEPT !.S.files = tab1, !.exc = "AttributeError"]
             ELSE [R EXCEPT
                     !.S.files = tab1,
                     !.target = ArrayPut(@, index.target[1], index.target[2],
                                         [c \in 1..(index.target[2] - index.target[1]) |->
                                             FillValue])]
        ELSE
        LET dobj == ReadSource(tab1[i], R.S.store[index.file], state)
            tab2 == IF OpensStored(state)
                    THEN [tab1 EXCEPT ![i].data_object = dobj]
                    ELSE tab1
        IN  IF ~dobj.present
            THEN [R EXCEPT !.S.files = tab2, !.exc = "TypeError"]
            ELSE [R EXCEPT
                    !.S.files = tab2,
                    !.target = ArrayPut(@, index.target[1], index.target[2],
                                        NcGet(dobj.cells, index.source[1],
                                              index.source[2]))]

RECURSIVE GetItemLoop(_, _, _)
GetItemLoop(R, index_list, k) ==
    IF k > Len(index_list) \/ R.exc # None
    THEN R
    ELSE GetItemLoop(GetItemStep(R, index_list[k]), index_list, k + 1)

\* variable[lo:hi] on the partitioned variable
DoGetItem(S, lo, hi) ==
    LET R == GetItemLoop([S |-> S, target |-> RequestArray(lo, hi), exc |-> None,
                          as_recorded |-> FALSE],
                         IndexList(lo, hi), 1)
    IN  [R.S EXCEPT !.last = [NoLast EXCEPT !.op = "getitem", !.exc = R.exc,
                                            !.lo = lo, !.hi = hi,
                                            !.result = IF R.exc = None
                                                       THEN R.target ELSE <<>>]]

\* the same read with the FileManager returning its records as they are
DoGetItemRecorded(S, lo, hi) ==
    LET R == GetItemLoop([S |-> S, target |-> RequestArray(lo, hi), exc |-> None,
                          as_recorded |-> TRUE],
                         IndexList(lo, hi), 1)
    IN  [R.S EXCEPT !.last = [NoLast EXCEPT !.op = "getitem", !.exc = R.exc,
                                            !.lo = lo, !.hi = hi,
                                            !.result = IF R.exc = None
                                                       THEN R.target ELSE <<>>]]

----------------------------------------------------------------------------
(* s3Dataset.close                                                         *)

\* a variant that writes the CFA metadata whatever the mode
SerializesWhenAggregated(S) == S.ds.cfa_dataset

\* close() writes the CFA metadata first when the dataset was written as CFA
SerializesMetadata(S) == S.ds.mode = "w" /\ S.ds.cfa_dataset

\* the body of the loop over _file_manager.files for one record.  C carries
\* the dataset record S and the exception that ended the loop.
CloseStep(C, k) ==
    LET rec == C.S.files[k] IN
    IF C.S.ds.mode = "w"
    THEN IF ~rec.data_object.present
         THEN [C EXCEPT !.exc = "AttributeError"]
         ELSE [C EXCEPT
                 !.S.files[k].data_object.closed = TRUE,
                 !.S.files[k].closed = TRUE,
                 !.S.files[k].payload =
                     [present |-> TRUE, cells |-> rec.data_object.cells],
                 !.S.store[rec.url] =
                     [exists |-> TRUE, header |-> <<137, 72, 68, 70>>,
                      cfa |-> rec.url = MasterFile /\ C.S.ds.cfa_dataset,
                      cells |-> rec.data_object.cells],
                 !.S.close_log = @ \o <<<<"close_data", rec.url>>,
                                        <<"close_stream", rec.url>>>>]
    ELSE IF rec.file_object # None
    THEN [C EXCEPT !.S.files[k].closed = TRUE,
                   !.S.close_log = Append(@, <<"close_stream", rec.url>>)]
    ELSE C

RECURSIVE CloseLoop(_, _)
CloseLoop(C, k) ==
    IF k > Len(C.S.files) \/ C.exc # None
    THEN C
    ELSE CloseLoop(CloseStep(C, k), k + 1)

DoClose(S) ==
    LET S1 == IF SerializesMetadata(S)
              THEN [S EXCEPT !.close_log = Append(@, <<"serialize", MasterFile>>)]
              ELSE S
        C == CloseLoop([S |-> S1, exc |-> None], 1)
    IN  [C.S EXCEPT !.ds.state = IF C.exc = None THEN "closed" ELSE "close_failed",
                    !.last = [NoLast EXCEPT !.op = "close", !.exc = C.exc]]


----------------------------------------------------------------------------
(* SpecData: slice writes, slice reads and close on a dataset with the     *)
(* partitioned variable "t" over the dimension "x".  A dataset opened for  *)
(* writing has the dimension, its dimension variable and "t" created; a    *)
(* dataset opened for reading finds the master and the subarrays that an   *)
(* earlier session left on the store.                                      *)

HDF5Master == [exists |-> TRUE, header |-> <<137, 72, 68, 70>>, cfa |-> TRUE,
               cells |-> <<>>]

\* the object an earlier session stored for subarray p
PriorSubarray(p) ==
    [exists |-> TRUE, header |-> <<137, 72, 68, 70>>, cfa |-> FALSE,
     cells |-> [i \in 1..TileShape(p) |-> ((p + i) % NumValues) + 1]]

PriorStores ==
    {[u \in AllFiles |->
         IF u = MasterFile THEN HDF5Master
         ELSE IF u[2] \in written THEN PriorSubarray(u[2]) ELSE NoObject] :
     written \in SUBSET Tiles}

WrittenDataset(remote, fill) ==
    LET S1 == DoOpen(Blank(EmptyStore), "w", "DEFAULT", "0.4", remote, NoObject)
        S2 == DoCreateDimension(S1, Dataset, "x")
        S3 == DoCreateVariable(S2, Dataset, "x", TRUE, <<"x">>, FALSE, 0)
        S4 == DoCreateVariable(S3, Dataset, "t", TRUE, <<"x">>, TRUE, 0)
    IN  [S4 EXCEPT !.pvar.has_fill = fill, !.last = NoLast]

\* CFA_netCDFParser.read: the dimension, its variable and the partitioned
\* variable of the master, with the partitions the master lists
ParsedDataset(remote, fill, prior) ==
    LET S1 == DoOpen(Blank(prior), "r", "DEFAULT", "0.4", remote, HDF5Master) IN
    [S1 EXCEPT
        !.cfa.dims = {<<"root", "x">>},
        !.cfa.vars = {[grp |-> "root", name |-> "t", dimensions |-> <<"x">>,
                       part_info |-> TRUE]},
        !.nc.dims = {<<Dataset, "x">>},
        !.nc.vars = {[parent |-> Dataset, name |-> "x", dimensions |-> <<"x">>],
                     [parent |-> Dataset, name |-> "t", dimensions |-> <<>>]},
        !.s3tab.dims = {<<Dataset, "x">>},
        !.s3tab.vars = {[parent |-> Dataset, name |-> "x", cfa_var |-> FALSE,
                         cfa_dim |-> TRUE, nc_var |-> TRUE],
                        [parent |-> Dataset, name |-> "t", cfa_var |-> TRUE,
                         cfa_dim |-> FALSE, nc_var |-> TRUE]},
        !.pvar.partitions = [p \in Tiles |->
                                IF prior[SubarrayFile(p)].exists THEN 1 ELSE 0],
        !.pvar.has_fill = fill,
        !.last = NoLast]

InitData ==
    /\ \E remote \in BOOLEAN, fill \in BOOLEAN :
          \/ Starts(WrittenDataset(remote, fill))
          \/ \E prior \in PriorStores : Starts(ParsedDataset(remote, fill, prior))
    /\ fo = NoFileObject
    /\ s3 = NoS3

\* the data a caller assigns to a slice of n cells: a scalar, or an array
\* whose neighbouring cells differ
DataArgs(n) ==
    {[scalar |-> TRUE, data |-> <<v>>] : v \in Values} \cup
    {[scalar |-> FALSE, data |-> [i \in 1..n |-> ((v + i) % NumValues) + 1]] :
        v \in Values}

SetItem ==
    /\ ds.state = "open"
    /\ ds.mode = "w"
    /\ \E sl \in Slices : \E d \in DataArgs(sl[2] - sl[1]) :
          Becomes(DoSetItem(Current, sl[1], sl[2], d.scalar, d.data))
    /\ UNCHANGED <<fo, s3>>

GetItem ==
    /\ ds.state = "open"
    /\ \E sl \in Slices : Becomes(DoGetItem(Current, sl[1], sl[2]))
    /\ UNCHANGED <<fo, s3>>

Close ==
    /\ ds.state = "open"
    /\ Becomes(DoClose(Current))
    /\ UNCHANGED <<fo, s3>>

NextData == SetItem \/ GetItem \/ Close

SpecData == InitData /\ [][NextData]_vars

----------------------------------------------------------------------------
(* SpecRecorded: slices written and read in a dataset opened for writing,  *)
(* with a FileManager that returns the records of its table as they are.   *)

InitRecorded ==
    /\ \E remote \in BOOLEAN, fill \in BOOLEAN :
          Starts(WrittenDataset(remote, fill))
    /\ fo = NoFileObject
    /\ s3 = NoS3

SetItemRecorded ==
    /\ ds.state = "open"
    /\ \E sl \in Slices : \E d \in DataArgs(sl[2] - sl[1]) :
          Becomes(DoSetItemRecorded(Current, sl[1], sl[2], d.scalar, d.data))
    /\ UNCHANGED <<fo, s3>>

GetItemRecorded ==
    /\ ds.state = "open"
    /\ \E sl \in Slices : Becomes(DoGetItemRecorded(Current, sl[1], sl[2]))
    /\ UNCHANGED <<fo, s3>>

NextRecorded == SetItemRecorded \/ GetItemRecorded

SpecRecorded == InitRecorded /\ [][NextRecorded]_vars


----------------------------------------------------------------------------
(* Properties of slice writes, slice reads and close (SpecData)            *)

\* the index entries of the slice of the last operation
LastIndexList == IndexList(last.lo, last.hi)

\* the last operation was variable[lo:hi] = A with an array A of hi - lo cells
LastWroteArray ==
    /\ last.op = "setitem"
    /\ ~last.scalar
    /\ Len(last.data) = last.hi - last.lo

(* C1: writing an array A to a slice of the partitioned variable, whether   *)
(* the slice lies in one tile or spans several, raises nothing and leaves   *)
(* in every touched tile, at the entry's source slice, the part of A that   *)
(* the entry's target slice selects (so that reading the slice gives A).    *)
C1_RoundTrip ==
    LastWroteArray =>
        /\ last.exc = None
        /\ \A k \in 1..Len(LastIndexList) :
              LET e == LastIndexList[k] IN
              /\ HasRecord(files, e.file)
              /\ Record(files, e.file).data_object.present
              /\ NcGet(Record(files, e.file).data_object.cells,
                       e.source[1], e.source[2])
                 = NcGet(last.data, e.target[1], e.target[2])

(* C2: a read of any slice raises nothing and returns the variable's        *)
(* _FillValue in every cell of a tile whose file is reported                *)
(* DOES_NOT_EXIST.                                                          *)
C2_FillValueLaw ==
    last.op = "getitem" =>
        /\ last.exc = None
        /\ \A k \in 1..Len(LastIndexList) :
              LET e == LastIndexList[k] IN
              Record(files, e.file).open_state = DOES_NOT_EXIST =>
                  \A c \in (e.target[1] + 1)..e.target[2] :
                      last.result[c] = FillValue

(* C3: after close() on a dataset opened for writing every record of the    *)
(* open-file table is flushed: its data object is closed and the bytes were *)
(* handed to the close of its byte stream.                                  *)
C3_CloseFlushesAll ==
    (last.op = "close" /\ ds.mode = "w") =>
        \A k \in 1..Len(files) :
            /\ files[k].closed
            /\ files[k].data_object.closed
            /\ files[k].payload.present

LastTilesCreated ==
    \A k \in 1..Len(LastIndexList) : pvar.creates[LastIndexList[k].partition] >= 1

LogPositions(kind) == {k \in 1..Len(close_log) : close_log[k][1] = kind}

(* C7: close() of an aggregated dataset opened for writing serializes the   *)
(* metadata once, before any record is closed; close() of a dataset opened  *)
(* for reading serializes nothing and closes byte streams only.             *)
C7_SerializeFirst ==
    last.op = "close" =>
        /\ (ds.mode = "w" /\ ds.cfa_dataset) => LogPositions("serialize") = {1}
        /\ ds.mode = "r" =>
              /\ LogPositions("serialize") = {}
              /\ LogPositions("close_data") = {}

\* a close in write mode that serialized and then closed records
C7_Witness ==
    /\ last.op = "close"
    /\ ds.mode = "w"
    /\ ds.cfa_dataset
    /\ Len(close_log) >= 5
    /\ close_log[1][1] = "serialize"


----------------------------------------------------------------------------
(* Properties of createVariable (SpecCreate)                               *)

\* the last call was a createVariable that returned, on an aggregated dataset
LastCreatedVariable ==
    /\ last.op = "createVariable"
    /\ last.exc = None
    /\ Len(last.args) = 4
    /\ ds.cfa_dataset

\* the CFA variables of the name and group of the last createVariable
LastCfaVariables ==
    {v \in cfa.vars : v.grp = CfaGroupOf(last.args[1]) /\ v.name = last.args[2]}

\* C8 as stated: the new variable is partitioned exactly when the caller gave
\* a subarray_shape or a max_subarray_size > 0
C8_ByArguments ==
    LastCreatedVariable =>
        (LastCfaVariables # {} <=> (last.args[3] \/ last.args[4] > 0))

(* C8: createVariable on an aggregated dataset or group makes the new       *)
(* variable partitioned (a CFA variable) exactly when its name is not a     *)
(* dimension declared in the group, whatever subarray_shape and             *)
(* max_subarray_size the caller gave; the initial partition information is  *)
(* written exactly when the partitioned variable has a dimension.           *)
C8_ByDimensionName ==
    LastCreatedVariable =>
        /\ LastCfaVariables # {} <=>
              <<CfaGroupOf(last.args[1]), last.args[2]>> \notin cfa.dims
        /\ \A v \in LastCfaVariables : v.part_info <=> v.dimensions # <<>>
        /\ \A v \in s3tab.vars :
              (v.parent = last.args[1] /\ v.name = last.args[2]) =>
                  (v.cfa_var <=> LastCfaVariables # {})

\* a variable created with neither argument became partitioned
C8_Witness ==
    /\ LastCreatedVariable
    /\ ~last.args[3]
    /\ last.args[4] = 0
    /\ LastCfaVariables # {}

----------------------------------------------------------------------------
(* Properties of opening a dataset (Spec)                                  *)

ClassicalFormats ==
    {"NETCDF3_CLASSIC", "CFA3", "NETCDF3_64BIT_OFFSET", "NETCDF3_64BIT_DATA"}

(* C9: opening with convention version "0.5" and a classical format, in     *)
(* mode 'r' or 'w', is rejected with the library's exception and leaves no  *)
(* open dataset.                                                            *)
C9_RejectsClassical ==
    (/\ last.op = "open"
     /\ Len(last.args) = 3
     /\ last.args[1] \in {"r", "w"}
     /\ last.args[2] \in ClassicalFormats
     /\ last.args[3] = "0.5") =>
        (last.exc = "APIException" /\ ds.state = "failed")

(* C10: opening with a mode other than 'r' or 'w' is rejected with          *)
(* APIException, and the call has requested no file from the file manager   *)
(* and left no record in its table.                                         *)
C10_RejectsMode ==
    (/\ last.op = "open"
     /\ Len(last.args) = 3
     /\ last.args[1] \notin {"r", "w"}) =>
        /\ last.exc = "APIException"
        /\ ~last.requested
        /\ files = <<>>


----------------------------------------------------------------------------
(* SpecFile: the s3FileObject.  F carries the file object fo and the store *)
(* s3 of one bucket/key.  current_part = 0 stands for an attribute that    *)
(* was never assigned, upload_id = 0 likewise.                             *)

PartSize == 2
MaxParts == 2
MaxChunk == 2
MaxWrites == 3

MaxObject == 3
MaxRead == 2

Bytes == {97, 98}
Chunks == UNION {[1..n -> Bytes] : n \in 1..MaxChunk}

\* 'r' in mode, 'w' in mode, 'a' in mode or '+' in mode
ModeHasR(mode) == mode \in {"r", "rb"}
ModeHasW(mode) == mode \in {"w", "wb"}
ModeAppends(mode) == mode \in {"a"}

\* the attributes the class body assigns
ClassAttributes == {"_connection_pool", "_config"}

\* s3FileObject.<name>: a name the class does not have raises AttributeError
ClassHasAttribute(name) == name \in ClassAttributes

\* __init__ with part_size and max_parts given
NewFileObject(mode, multipart_download, wildcard, max_parts) ==
    [NoFileObject EXCEPT !.mode = mode, !.buffer = <<<<>>>>,
                         !.max_parts = max_parts,
                         !.multipart_download = multipart_download,
                         !.wildcard = wildcard]

\* a call of op with op_args begins: nothing raised or returned yet
BeginFile(F, op, op_args) ==
    [F EXCEPT !.fo.op = op, !.fo.exc = None, !.fo.args = op_args,
              !.fo.result = <<>>, !.fo.ret = 0, !.fo.reclosed = FALSE]

\* the call ends by raising exc
RaiseFile(F, op, exc) == [F EXCEPT !.fo.op = op, !.fo.exc = exc]

\* _handle_connection_exception for the AttributeError of an attribute of
\* the instance that was never assigned (_conn_obj, _current_part); the
\* AttributeError of a _conn_obj that is None is raised again as it is
NotConnected(F, op) ==
    RaiseFile(F, op, IF F.fo.conn_none THEN "AttributeError" ELSE "APIException")

\* the calls of the botocore client a method makes; a transport failure is the
\* ClientError of one of them
NoFailure == "none"

\* a variant of connect in which the existence check is inside the try
ListFailureWrapped(exc) == "IOException"

\* what the caller of connect sees of a ClientError of list_objects_v2, which
\* is called outside the try
ListFailure(exc) == exc

\* connect(): the connection from the pool (pooled) or a new client, the
\* existence check of a read, _current_part, the refusal of an append
FileConnect(F, pooled, fail) ==
    LET F0 == BeginFile(F, "connect", <<>>) IN
    IF ~pooled /\ fail = "create_client"
    THEN RaiseFile([F0 EXCEPT !.fo.connected = FALSE, !.fo.conn_none = TRUE],
                   "connect", "IOException")
    ELSE
    LET F1 == [F0 EXCEPT !.fo.connected = TRUE, !.fo.conn_none = FALSE,
                         !.fo.holds = Bump(@), !.s3.held = Bump(@)]
        checks == ModeHasR(F1.fo.mode) /\ ~F1.fo.wildcard
    IN  IF checks /\ fail = "list_objects_v2"
        THEN RaiseFile(F1, "connect", ListFailure("ClientError"))
        ELSE IF checks /\ ~F1.s3.exists
        THEN RaiseFile(F1, "connect", "IOException")
        ELSE
        LET F2 == IF ModeHasW(F1.fo.mode) THEN [F1 EXCEPT !.fo.current_part = 1]
                  ELSE F1
        IN  IF ModeAppends(F2.fo.mode)
            THEN RaiseFile(F2, "connect", "APIException")
            ELSE F2

\* _multipart_upload_from_buffer up to the first buffer part, whose length is
\* compared with s3FileObject.MAXIMUM_PART_SIZE; wrapped tells whether the
\* caller catches ClientError
MultipartUploadFromBuffer(F, op, fail, wrapped) ==
    LET transport == IF wrapped THEN "IOException" ELSE "ClientError" IN
    IF ~F.fo.connected
    THEN NotConnected(F, op)
    ELSE IF fail = "list_buckets"
    THEN RaiseFile(F, op, transport)
    ELSE IF ~F.s3.bucket /\ fail = "create_bucket"
    THEN RaiseFile(F, op, transport)
    ELSE
    LET F1 == [F EXCEPT !.s3.bucket = TRUE] IN
    IF F1.fo.current_part = 1 /\ fail = "create_multipart_upload"
    THEN RaiseFile(F1, op, transport)
    ELSE
    LET F2 == IF F1.fo.current_part = 1
              THEN [F1 EXCEPT !.s3.uploads = Bump(@), !.fo.upload_id = F1.s3.uploads + 1]
              ELSE F1
    IN  IF ~ClassHasAttribute("MAXIMUM_PART_SIZE")
        THEN RaiseFile(F2, op, "AttributeError")
        ELSE F2

\* write(b)
FileWrite(F, b, fail) ==
    IF ~ModeHasW(F.fo.mode)
    THEN RaiseFile(BeginFile(F, "write", <<>>), "write", "APIException")
    ELSE
    LET n == Len(F.fo.buffer)
        F1 == [BeginFile(F, "write", <<>>) EXCEPT
                  !.fo.buffer[n] = @ \o b, !.fo.seek_pos = @ + Len(b)]
        F2 == IF F1.fo.seek_pos > PartSize
              THEN IF n = F1.fo.max_parts
                   THEN MultipartUploadFromBuffer(F1, "write", fail, TRUE)
                   ELSE [F1 EXCEPT !.fo.buffer = Append(@, <<>>)]
              ELSE F1
    IN  [F2 EXCEPT !.fo.writes = @ + 1,
                   !.fo.wrote = IF F2.fo.exc = None THEN @ \o b ELSE @]

\* flush()
FileFlush(F, op, fail) ==
    LET F0 == BeginFile(F, op, <<>>) IN
    IF ~ModeHasW(F0.fo.mode)
    THEN F0
    ELSE IF F0.fo.current_part = 0
    THEN NotConnected(F0, op)
    ELSE IF F0.fo.current_part = 1
    THEN IF ~ClassHasAttribute("MAXIMUM_PART_SIZE")
         THEN RaiseFile(F0, op, "AttributeError")
         ELSE [F0 EXCEPT !.s3.bucket = TRUE, !.s3.puts = Bump(@),
                         !.s3.exists = TRUE, !.s3.object = F0.fo.buffer[1]]
    ELSE MultipartUploadFromBuffer(F0, op, fail, FALSE)

\* a variant of close that flushes and releases whether closed or not
ClosesAgain(F) == TRUE

\* close(): if not self._closed
ClosesNow(F) == ~F.fo.closed

\* close()
FileClose(F, fail) ==
    IF ~ClosesNow(F)
    THEN [BeginFile(F, "close", <<>>) EXCEPT !.fo.reclosed = F.fo.closed]
    ELSE
    LET F1 == FileFlush(F, "close", fail) IN
    IF F1.fo.exc # None
    THEN F1
    ELSE IF ~F1.fo.connected
    THEN NotConnected(F1, "close")
    ELSE [F1 EXCEPT !.s3.released = Bump(@), !.fo.closed = TRUE,
                    !.fo.holds = IF @ > 0 THEN @ - 1 ELSE @]

SEEK_SET == 0
SEEK_CUR == 1
SEEK_END == 2

\* _getsize(): the part size of a file that is written, the ContentLength of
\* head_object otherwise
GetSize(F) == IF ModeHasW(F.fo.mode) THEN PartSize ELSE Len(F.s3.object)

\* whether _getsize() raises, and what
GetSizeRaises(F, fail) ==
    IF ModeHasW(F.fo.mode) THEN None
    ELSE IF ~F.fo.connected THEN IF F.fo.conn_none THEN "AttributeError" ELSE "APIException"
    ELSE IF fail = "head_object" \/ ~F.s3.exists THEN "IOException"
    ELSE None

\* get_object with Range bytes=first-last, positions counted from 0
RangeOf(object, first, end) == SubSeq(object, first + 1, Min(end + 1, Len(object)))

\* a variant that advances the position by the bytes returned
AdvanceByReturned(F, size, returned) == F.fo.seek_pos + returned

\* self._seek_pos += size
AdvanceBySize(F, size, returned) == F.fo.seek_pos + size

\* read(size), size = -1 for the whole object
FileRead(F, size, fail) ==
    LET F0 == BeginFile(F, "read", <<size>>)
        sized == GetSizeRaises(F0, fail)
        range_end == Min(F0.fo.seek_pos + size - 1, GetSize(F0) - 1)
        whole == size = -1 \/ ~F0.fo.multipart_download
    IN  IF ~F0.fo.connected
        THEN NotConnected(F0, "read")
        ELSE IF size # -1 /\ sized # None
        THEN RaiseFile(F0, "read", sized)
        ELSE IF fail = "get_object" \/ ~F0.s3.exists
        THEN RaiseFile(F0, "read", "IOException")
        ELSE IF whole
        THEN [F0 EXCEPT !.s3.gets = Bump(@), !.fo.result = F0.s3.object]
        ELSE IF F0.fo.seek_pos >= Len(F0.s3.object)
        THEN RaiseFile(F0, "read", "IOException")
        ELSE
        LET body == RangeOf(F0.s3.object, F0.fo.seek_pos, range_end) IN
        [F0 EXCEPT !.s3.gets = Bump(@), !.fo.result = body,
                   !.fo.seek_pos = AdvanceBySize(F0, size, Len(body))]

\* a variant that refuses every mode that has a 'w'
SeekRefusesWriting(mode) == ModeHasW(mode)

\* if self._mode == 'w'
SeekRefuses(mode) == mode = "w"

\* a variant that counts the offset from the end of the stream onwards
SeekFromEndAdds(size, offset) == size + offset

\* whence == io.SEEK_END: seek_pos = size - offset
SeekFromEnd(size, offset) == size - offset

\* seek(offset, whence)
FileSeek(F, offset, whence, fail) ==
    LET F0 == BeginFile(F, "seek", <<offset, whence>>)
        sized == GetSizeRaises(F0, fail)
        size == GetSize(F0)
        seek_pos == IF whence = SEEK_SET THEN offset
                    ELSE IF whence = SEEK_CUR THEN F0.fo.seek_pos + offset
                    ELSE IF whence = SEEK_END THEN SeekFromEnd(size, offset)
                    ELSE F0.fo.seek_pos
    IN  IF SeekRefuses(F0.fo.mode)
        THEN RaiseFile(F0, "seek", "IOException")
        ELSE IF sized # None
        THEN RaiseFile(F0, "seek", sized)
        ELSE IF seek_pos >= size \/ seek_pos < 0
        THEN RaiseFile(F0, "seek", "IOException")
        ELSE [F0 EXCEPT !.fo.seek_pos = seek_pos, !.fo.ret = seek_pos]

FileCurrent == [fo |-> fo, s3 |-> s3]

\* the outcome of a call, with the failure that was set for it
Injected(F, fail) == [F EXCEPT !.fo.failed = fail # NoFailure]

FileBecomes(F) == \E G \in {F} : fo' = G.fo /\ s3' = G.s3

\* what the bucket/key held before the file object was made
PriorObjects ==
    {NoS3,
     [NoS3 EXCEPT !.exists = TRUE, !.object = <<97>>, !.bucket = TRUE],
     [NoS3 EXCEPT !.exists = TRUE, !.bucket = TRUE,
                  !.object = [i \in 1..MaxObject |-> 97 + (i % 2)]]}

FileModes == {"r", "w", "wb", "a"}

\* SpecFile: an object that is written, or read, with any max_parts
InitFile ==
    /\ Starts(Blank(EmptyStore))
    /\ \E mode \in {"r", "w"}, max_parts \in 1..MaxParts :
          /\ ModeHasW(mode) \/ max_parts = MaxParts
          /\ fo = NewFileObject(mode, TRUE, FALSE, max_parts)
    /\ s3 \in PriorObjects

\* SpecStream: an object of any mode, with or without range downloads, its
\* path with or without a wildcard
InitStream ==
    /\ Starts(Blank(EmptyStore))
    /\ \E mode \in FileModes, multipart_download \in BOOLEAN, wildcard \in BOOLEAN :
          /\ ModeHasR(mode) \/ (multipart_download /\ ~wildcard)
          /\ fo = NewFileObject(mode, multipart_download, wildcard, MaxParts)
    /\ s3 \in PriorObjects

connect ==
    /\ \E pooled \in BOOLEAN, fail \in {NoFailure, "create_client", "list_objects_v2"} :
          FileBecomes(Injected(FileConnect(FileCurrent, pooled, fail), fail))
    /\ UNCHANGED <<ds, files, store, cfa, nc, s3tab, pvar, last, close_log>>

write ==
    /\ fo.writes < MaxWrites
    /\ \E b \in Chunks,
          fail \in {NoFailure, "list_buckets", "create_bucket", "create_multipart_upload"} :
          FileBecomes(Injected(FileWrite(FileCurrent, b, fail), fail))
    /\ UNCHANGED <<ds, files, store, cfa, nc, s3tab, pvar, last, close_log>>

\* a read at or past the end of the stream asks for a range whose end is
\* before its start; what the store answers to it is left out
read ==
    /\ \E size \in {-1} \cup 1..MaxRead, fail \in {NoFailure, "head_object", "get_object"} :
          /\ size = -1 \/ fo.seek_pos < GetSize(FileCurrent)
          /\ FileBecomes(Injected(FileRead(FileCurrent, size, fail), fail))
    /\ UNCHANGED <<ds, files, store, cfa, nc, s3tab, pvar, last, close_log>>

seek ==
    /\ \E offset \in -1..MaxRead, whence \in {SEEK_SET, SEEK_CUR, SEEK_END},
          fail \in {NoFailure, "head_object"} :
          FileBecomes(Injected(FileSeek(FileCurrent, offset, whence, fail), fail))
    /\ UNCHANGED <<ds, files, store, cfa, nc, s3tab, pvar, last, close_log>>

flush ==
    /\ \E fail \in {NoFailure, "list_buckets"} :
          FileBecomes(Injected(FileFlush(FileCurrent, "flush", fail), fail))
    /\ UNCHANGED <<ds, files, store, cfa, nc, s3tab, pvar, last, close_log>>

close ==
    /\ \E fail \in {NoFailure, "list_buckets"} :
          FileBecomes(Injected(FileClose(FileCurrent, fail), fail))
    /\ UNCHANGED <<ds, files, store, cfa, nc, s3tab, pvar, last, close_log>>

NextFile == connect \/ write \/ flush \/ close

NextStream == connect \/ read \/ seek \/ flush \/ close

SpecStream == InitStream /\ [][NextStream]_vars

SpecFile == InitFile /\ [][NextFile]_vars

(* C4: after close() of a connected s3FileObject opened for writing, the    *)
(* call has raised nothing and the object stored under the bucket/key is    *)
(* the concatenation, in order, of the bytes of the writes.                 *)
C4_StoresConcatenation ==
    (fo.op = "close" /\ fo.mode = "w" /\ fo.connected) =>
        /\ fo.exc = None
        /\ fo.closed
        /\ s3.exists
        /\ s3.object = fo.wrote


----------------------------------------------------------------------------
(* Properties of the magic-number check of a dataset opened for reading    *)
(* (Spec)                                                                  *)

\* the last call opened, for reading, a master file that the store holds, and
\* got as far as the request of the file
LastReadExisting ==
    /\ last.op = "open"
    /\ Len(last.args) = 3
    /\ last.args[1] = "r"
    /\ last.requested
    /\ store[MasterFile].exists

\* the format the claim gives for the headers CDF\x02, CDF\x05 and
\* \x0e\x03\x13\x01
ExpectedVariant(header) ==
    CASE header = <<67, 68, 70, 2>> -> "NETCDF3_64BIT_OFFSET"
      [] header = <<67, 68, 70, 5>> -> "NETCDF3_64BIT_DATA"
      [] header = <<14, 3, 19, 1>> -> "NETCDF4"
      [] OTHER -> None

(* C11: a master file whose header is CDF\x02, CDF\x05 or \x0e\x03\x13\x01  *)
(* opens in read mode, as NETCDF3_64BIT_OFFSET, NETCDF3_64BIT_DATA and      *)
(* NETCDF4 respectively.                                                    *)
C11_DetectsVariants ==
    (LastReadExisting /\ ExpectedVariant(store[MasterFile].header) # None) =>
        /\ ds.state = "open"
        /\ ds.file_type = ExpectedVariant(store[MasterFile].header)

\* the headers the check is documented to recognise
RecognisedHeader(header) ==
    \/ Slice(header, 1, 4) = HDF
    \/ header = <<67, 68, 70, 1>>
    \/ ExpectedVariant(header) # None

----------------------------------------------------------------------------
(* Further properties of createVariable (SpecCreate)                       *)

\* the master-file variables of the parent and name of the last createVariable
LastNcVariables ==
    {v \in nc.vars : v.parent = last.args[1] /\ v.name = last.args[2]}

(* C13: in an aggregated dataset createVariable makes the master-file       *)
(* variable with the one dimension (name,) and no CFA variable when the     *)
(* name is a dimension declared in the group (the root group for the        *)
(* dataset), and with no dimension for any other name, whatever dimensions  *)
(* the call gave.                                                           *)
C13_MasterDimensions ==
    LastCreatedVariable =>
        /\ LastNcVariables # {}
        /\ \A v \in LastNcVariables :
              IF <<CfaGroupOf(v.parent), v.name>> \in cfa.dims
              THEN v.dimensions = <<v.name>> /\ LastCfaVariables = {}
              ELSE v.dimensions = <<>>

\* a variable over a dimension that is a scalar in the master file
C13_Witness ==
    /\ LastCreatedVariable
    /\ \E v \in LastCfaVariables : v.dimensions # <<>>
    /\ \E v \in LastNcVariables : v.dimensions = <<>>


----------------------------------------------------------------------------
(* Properties of a dataset opened for writing (Spec)                       *)

\* the last call opened a dataset for writing and got past the convention
\* check
LastOpenedForWriting ==
    /\ last.op = "open"
    /\ Len(last.args) = 3
    /\ last.args[1] = "w"
    /\ last.requested

(* C14: opened for writing, DEFAULT and CFA4 give an aggregated dataset     *)
(* whose files use NETCDF4, CFA3 an aggregated dataset whose files use      *)
(* NETCDF3_CLASSIC, and any other format a dataset with no CFA dataset and  *)
(* no root group whose file uses the format as given.                       *)
C14_WriteFormats ==
    LastOpenedForWriting =>
        /\ ds.state = "open"
        /\ last.args[2] \in {"DEFAULT", "CFA4"} =>
              /\ ds.cfa_dataset
              /\ "root" \in cfa.groups
              /\ ds.file_type = "NETCDF4"
              /\ ds.format = "NETCDF4"
        /\ last.args[2] = "CFA3" =>
              /\ ds.cfa_dataset
              /\ "root" \in cfa.groups
              /\ ds.file_type = "NETCDF3_CLASSIC"
              /\ ds.format = "NETCDF3_CLASSIC"
        /\ last.args[2] \notin {"DEFAULT", "CFA4", "CFA3"} =>
              /\ ~ds.cfa_dataset
              /\ cfa.groups = {}
              /\ ds.file_type = last.args[2]
              /\ ds.format = last.args[2]

\* a dataset opened for writing with the default format
C14_Witness ==
    /\ LastOpenedForWriting
    /\ last.args[2] = "DEFAULT"
    /\ ds.cfa_dataset
    /\ ds.file_type = "NETCDF4"


----------------------------------------------------------------------------
(* What a read leaves alone (SpecData)                                     *)

\* the step is a read of a slice of the partitioned variable
ReadStep == last'.op = "getitem"

----------------------------------------------------------------------------
(* SpecAttr: the attribute methods of one object of a dataset: the dataset, *)
(* a group, a field variable or a dimension variable.  In an aggregated     *)
(* dataset the object has a CFA object with a metadata dictionary.          *)

AttrObjects == {"dataset", "group", "field", "dimvar"}

IsVariableObject(obj) == obj \in {"field", "dimvar"}

\* k in netCDF4._private_atts or k in s3Variable._private_atts
IsPrivateKey(k) == k = "_nc_var"

\* a variant that never uses the metadata dictionary
UsesNoMetadata(S) == FALSE

\* hasattr(self, "_cfa_...") and self._cfa_...: the object has a CFA object
UsesMetadata(S) == S.ds.cfa_dataset

AttrDone(S, op, obj_args, result) ==
    [S EXCEPT !.last = [NoLast EXCEPT !.op = op, !.args = obj_args,
                                      !.result = result]]

AttrRaise(S, op, obj_args, exc) ==
    [S EXCEPT !.last = [NoLast EXCEPT !.op = op, !.args = obj_args, !.exc = exc]]

\* setncattr(name, value) and setncattr_string(name, value)
DoSetNcAttr(S, op, name, value) ==
    IF UsesMetadata(S)
    THEN AttrDone([S EXCEPT !.cfa.metadata[name] = value], op, <<name, value>>, <<>>)
    ELSE AttrDone([S EXCEPT !.nc.attrs[name] = value], op, <<name, value>>, <<>>)

\* setncatts(attdict); attdict[k] = Absent stands for a key the dict lacks
DoSetNcAtts(S, attdict) ==
    LET skips(k) == IsVariableObject(S.cfa.attr_obj) /\ IsPrivateKey(k)
        put(map, skipping) ==
            [k \in AttrKeys |->
                IF attdict[k] # Absent /\ ~(skipping /\ skips(k))
                THEN attdict[k] ELSE map[k]]
    IN  IF UsesMetadata(S)
        THEN AttrDone([S EXCEPT !.cfa.metadata = put(@, TRUE)], "setncatts", <<>>, <<>>)
        ELSE AttrDone([S EXCEPT !.nc.attrs = put(@, FALSE)], "setncatts", <<>>, <<>>)

\* delncattr(name)
DoDelNcAttr(S, name) ==
    IF UsesMetadata(S)
    THEN IF S.cfa.metadata[name] = Absent
         THEN AttrRaise(S, "delncattr", <<name>>, "APIException")
         ELSE AttrDone([S EXCEPT !.cfa.metadata[name] = Absent], "delncattr",
                       <<name>>, <<>>)
    ELSE \* delncattr(name, value): value is no name of the method
         AttrRaise(S, "delncattr", <<name>>, "NameError")

\* the attribute of the netCDF object
NcGetAttr(S, op, name) ==
    IF S.nc.attrs[name] = Absent
    THEN AttrRaise(S, op, <<name>>, "AttributeError")
    ELSE AttrDone(S, op, <<name>>, <<S.nc.attrs[name]>>)

\* getncattr(name)
DoGetNcAttr(S, name) ==
    IF UsesMetadata(S) /\ S.cfa.metadata[name] # Absent
    THEN AttrDone(S, "getncattr", <<name>>, <<S.cfa.metadata[name]>>)
    ELSE NcGetAttr(S, "getncattr", name)

\* __getattr__(name) for a name that is no private attribute
DoGetAttr(S, name) ==
    IF UsesMetadata(S)
    THEN IF S.cfa.metadata[name] = Absent
         THEN AttrRaise(S, "getattr", <<name>>, "KeyError")
         ELSE AttrDone(S, "getattr", <<name>>, <<S.cfa.metadata[name]>>)
    ELSE NcGetAttr(S, "getattr", name)

\* a dataset opened for writing in the given format, with the dimension x,
\* its variable, the variable t over x and the group g
AttrWritten(format) ==
    LET S1 == DoOpen(Blank(EmptyStore), "w", format, "0.4", TRUE, NoObject)
        S2 == DoCreateDimension(S1, Dataset, "x")
        S3 == DoCreateVariable(S2, Dataset, "x", TRUE, <<"x">>, FALSE, 0)
        S4 == DoCreateVariable(S3, Dataset, "t", TRUE, <<"x">>, TRUE, 0)
    IN  DoCreateGroup(S4, "g")

\* an aggregated dataset opened for reading, with the same objects
AttrParsed ==
    LET S1 == ParsedDataset(TRUE, TRUE,
                  [u \in AllFiles |-> IF u = MasterFile THEN HDF5Master ELSE NoObject])
    IN  [S1 EXCEPT !.cfa.groups = @ \cup {"g"}, !.nc.groups = @ \cup {"g"},
                   !.s3tab.groups = @ \cup {"g"}]

AttrFormats == {"DEFAULT", "NETCDF4"}

\* what the file object holds for the keys: an attribute it got when it was
\* created (a variable created with a fill value holds _FillValue), or in an
\* earlier session
BackingAttrs == {NoAttrs} \cup {[NoAttrs EXCEPT !["units"] = v] : v \in Values}

\* the metadata dictionary of a new CFA object is empty; what the parser puts
\* into it for an attribute of the file is left open
InitAttr ==
    /\ \E obj \in AttrObjects, backing \in BackingAttrs :
          \/ \E format \in AttrFormats :
                Starts([AttrWritten(format) EXCEPT
                           !.cfa.attr_obj = obj, !.nc.attrs = backing,
                           !.last = NoLast])
          \/ \E parsed \in {NoAttrs, backing} :
                Starts([AttrParsed EXCEPT
                           !.cfa.attr_obj = obj, !.nc.attrs = backing,
                           !.cfa.metadata = parsed, !.last = NoLast])
    /\ fo = NoFileObject
    /\ s3 = NoS3

\* the dictionaries setncatts is called with
AttDicts == [AttrKeys -> {Absent} \cup Values] \ {NoAttrs}

setncattr ==
    /\ \E name \in AttrKeys, value \in Values :
          Becomes(DoSetNcAttr(Current, "setncattr", name, value))
    /\ UNCHANGED <<fo, s3>>

setncattr_string ==
    /\ \E name \in AttrKeys, value \in Values :
          Becomes(DoSetNcAttr(Current, "setncattr_string", name, value))
    /\ UNCHANGED <<fo, s3>>

setncatts ==
    /\ \E attdict \in AttDicts : Becomes(DoSetNcAtts(Current, attdict))
    /\ UNCHANGED <<fo, s3>>

delncattr ==
    /\ \E name \in AttrKeys : Becomes(DoDelNcAttr(Current, name))
    /\ UNCHANGED <<fo, s3>>

getncattr ==
    /\ \E name \in AttrKeys : Becomes(DoGetNcAttr(Current, name))
    /\ UNCHANGED <<fo, s3>>

getattr ==
    /\ \E name \in {"units"} : Becomes(DoGetAttr(Current, name))
    /\ UNCHANGED <<fo, s3>>

NextAttr ==
    setncattr \/ setncattr_string \/ setncatts \/ delncattr \/ getncattr \/ getattr

SpecAttr == InitAttr /\ [][NextAttr]_vars

AttrWriteOps == {"setncattr", "setncattr_string", "setncatts", "delncattr"}

\* C16: a setncattr, setncattr_string, setncatts or delncattr on an object of
\* an aggregated dataset (a partitioned variable, a dimension variable, a
\* group, the dataset) leaves the attributes of the backing file, the file
\* records and the object store as they were.
C16_OnlyMetadata ==
    [][(last'.op \in AttrWriteOps /\ ds.cfa_dataset)
          => (nc' = nc /\ store' = store /\ files' = files)]_vars

\* a set attribute is in the metadata dictionary and not in the file
C16_Witness ==
    /\ ds.cfa_dataset
    /\ last.op \in {"setncattr", "setncattr_string", "setncatts"}
    /\ last.exc = None
    /\ cfa.metadata["units"] # Absent
    /\ nc.attrs["units"] = Absent

\* C17: a lookup of an attribute the metadata dictionary of an aggregated
\* dataset's object lacks gives the attribute of the backing file when the
\* file has it, and raises only when the file lacks it too; this for
\* getncattr(name) and for the attribute-style lookup alike.
C17_FallsBack ==
    (/\ last.op \in {"getncattr", "getattr"}
     /\ ds.cfa_dataset
     /\ cfa.metadata[last.args[1]] = Absent)
    => IF nc.attrs[last.args[1]] # Absent
       THEN last.exc = None /\ last.result = <<nc.attrs[last.args[1]]>>
       ELSE last.exc # None

\* the same for getncattr(name) alone
C17_GetNcAttrFallsBack ==
    (/\ last.op = "getncattr"
     /\ ds.cfa_dataset
     /\ cfa.metadata[last.args[1]] = Absent)
    => IF nc.attrs[last.args[1]] # Absent
       THEN last.exc = None /\ last.result = <<nc.attrs[last.args[1]]>>
       ELSE last.exc # None

----------------------------------------------------------------------------
(* SpecRename: createGroup, createDimension, createVariable and the renames *)
(* of a group, a variable and a dimension, from a dataset opened for        *)
(* writing.  The renames of the CFA classes are not in the source: a rename *)
(* is taken to change the name in the in-memory structure, and to refuse an *)
(* old name that does not exist and a new name that is in use.              *)

Renamed(n, oldname, newname) == IF n = oldname THEN newname ELSE n

RenamedIn(dimensions, oldname, newname) ==
    [i \in 1..Len(dimensions) |-> Renamed(dimensions[i], oldname, newname)]

Called(S, op, op_args) == [S EXCEPT !.last = [NoLast EXCEPT !.op = op, !.args = op_args]]

Failed(S, op, op_args, exc) ==
    [S EXCEPT !.last = [NoLast EXCEPT !.op = op, !.args = op_args, !.exc = exc]]

\* _nc_dataset.renameVariable / _nc_grp.renameVariable
NcRenameVariable(S, parent, oldname, newname, op_args) ==
    IF ~NcHasVariable(S, parent, oldname)
    THEN Failed(S, "renameVariable", op_args, "KeyError")
    ELSE IF NcHasVariable(S, parent, newname)
    THEN Failed(S, "renameVariable", op_args, "RuntimeError")
    ELSE Called([S EXCEPT !.nc.vars =
                    {[v EXCEPT !.name = IF v.parent = parent
                                        THEN Renamed(@, oldname, newname) ELSE @] :
                        v \in @}],
                "renameVariable", op_args)

\* s3Dataset.renameVariable / s3Group.renameVariable: the CFA group, then the
\* netCDF object; _s3_variables is not touched
DoRenameVariable(S, parent, oldname, newname) ==
    LET op_args == <<parent, oldname, newname>>
        grp == CfaGroupOf(parent)
    IN  IF ~S.ds.cfa_dataset
        THEN NcRenameVariable(S, parent, oldname, newname, op_args)
        ELSE IF grp \notin S.cfa.groups
        THEN Failed(S, "renameVariable", op_args, "CFAError")
        ELSE IF \/ ~\E v \in S.cfa.vars : v.grp = grp /\ v.name = oldname
                \/ \E v \in S.cfa.vars : v.grp = grp /\ v.name = newname
        THEN Failed(S, "renameVariable", op_args, "CFAError")
        ELSE NcRenameVariable(
                 [S EXCEPT !.cfa.vars =
                     {[v EXCEPT !.name = IF v.grp = grp
                                         THEN Renamed(@, oldname, newname) ELSE @] :
                         v \in @}],
                 parent, oldname, newname, op_args)

\* _nc_dataset.renameDimension / _nc_grp.renameDimension: the variables over
\* the dimension follow it
NcRenameDimension(S, parent, oldname, newname, op_args) ==
    IF <<parent, oldname>> \notin S.nc.dims
    THEN Failed(S, "renameDimension", op_args, "KeyError")
    ELSE IF <<parent, newname>> \in S.nc.dims
    THEN Failed(S, "renameDimension", op_args, "RuntimeError")
    ELSE Called([S EXCEPT
                    !.nc.dims = (@ \ {<<parent, oldname>>}) \cup {<<parent, newname>>},
                    !.nc.vars =
                        {[v EXCEPT !.dimensions =
                             IF \/ v.parent = parent
                                \/ parent = Dataset /\ <<v.parent, oldname>> \notin S.nc.dims
                             THEN RenamedIn(@, oldname, newname) ELSE @] : v \in @}],
                "renameDimension", op_args)

\* s3Dataset.renameDimension / s3Group.renameDimension
DoRenameDimension(S, parent, oldname, newname) ==
    LET op_args == <<parent, oldname, newname>>
        grp == CfaGroupOf(parent)
        known == IF S.ds.cfa_dataset THEN <<parent, oldname>> \in S.s3tab.dims
                 ELSE <<parent, oldname>> \in S.nc.dims
    IN  IF parent = Dataset /\ ~known
        THEN Failed(S, "renameDimension", op_args, "APIException")
        ELSE IF ~S.ds.cfa_dataset
        THEN NcRenameDimension(S, parent, oldname, newname, op_args)
        ELSE IF grp \notin S.cfa.groups
        THEN Failed(S, "renameDimension", op_args, "CFAError")
        ELSE IF <<grp, oldname>> \notin S.cfa.dims \/ <<grp, newname>> \in S.cfa.dims
        THEN Failed(S, "renameDimension", op_args, "CFAError")
        ELSE NcRenameDimension(
                 [S EXCEPT
                     !.cfa.dims = (@ \ {<<grp, oldname>>}) \cup {<<grp, newname>>},
                     !.cfa.vars =
                         {[v EXCEPT !.dimensions =
                              IF v.grp = grp THEN RenamedIn(@, oldname, newname) ELSE @] :
                             v \in @}],
                 parent, oldname, newname, op_args)

\* s3Dataset.renameGroup: the CFA dataset, then the netCDF dataset;
\* _s3_groups is not touched, so the s3Group under the old name goes stale
DoRenameGroup(S, oldname, newname) ==
    LET op_args == <<oldname, newname>>
        S1 == IF ~S.ds.cfa_dataset THEN S
              ELSE [S EXCEPT
                       !.cfa.groups = (@ \ {oldname}) \cup {newname},
                       !.cfa.dims = {<<Renamed(d[1], oldname, newname), d[2]>> : d \in @},
                       !.cfa.vars = {[v EXCEPT !.grp = Renamed(@, oldname, newname)] :
                                        v \in @}]
    IN  IF S.ds.cfa_dataset /\ (oldname \notin S.cfa.groups \/ newname \in S.cfa.groups)
        THEN Failed(S, "renameGroup", op_args, "CFAError")
        ELSE IF oldname \notin S1.nc.groups
        THEN Failed(S1, "renameGroup", op_args, "KeyError")
        ELSE IF newname \in S1.nc.groups
        THEN Failed(S1, "renameGroup", op_args, "RuntimeError")
        ELSE Called([S1 EXCEPT
                        !.nc.groups = (@ \ {oldname}) \cup {newname},
                        !.nc.dims = {<<Renamed(d[1], oldname, newname), d[2]>> : d \in @},
                        !.nc.vars = {[v EXCEPT !.parent = Renamed(@, oldname, newname)] :
                                        v \in @},
                        !.s3tab.stale = @ \cup ({oldname} \cap S1.s3tab.groups)],
                    "renameGroup", op_args)

OldGroupNames == {"root", "g", "h"}
NewGroupNames == {"h"}
OldVarNames == {"x", "t", "u"}
NewVarNames == {"u"}
OldDimNames == {"x", "y"}
NewDimNames == {"y"}

renameGroup ==
    /\ ds.state = "open"
    /\ ds.calls < MaxCalls
    /\ \E oldname \in OldGroupNames, newname \in NewGroupNames :
          Becomes(Counted(DoRenameGroup(Current, oldname, newname)))
    /\ UNCHANGED <<fo, s3>>

renameVariable ==
    /\ ds.state = "open"
    /\ ds.calls < MaxCalls
    /\ \E parent \in {Dataset} \cup LiveGroups(Current), oldname \in OldVarNames,
          newname \in NewVarNames :
          Becomes(Counted(DoRenameVariable(Current, parent, oldname, newname)))
    /\ UNCHANGED <<fo, s3>>

renameDimension ==
    /\ ds.state = "open"
    /\ ds.calls < MaxCalls
    /\ \E parent \in {Dataset} \cup LiveGroups(Current), oldname \in OldDimNames,
          newname \in NewDimNames :
          Becomes(Counted(DoRenameDimension(Current, parent, oldname, newname)))
    /\ UNCHANGED <<fo, s3>>

\* a dataset just opened for writing, or one that holds the dimension x, its
\* variable, the variable t and the group g already
InitRename ==
    /\ \E format \in CreateFormats :
          \/ Starts(DoOpen(Blank(EmptyStore), "w", format, "0.4", TRUE, NoObject))
          \/ Starts([AttrWritten(format) EXCEPT !.last = NoLast])
    /\ fo = NoFileObject
    /\ s3 = NoS3

NextRename ==
    \/ createGroup \/ createDimension \/ createVariable
    \/ renameGroup \/ renameVariable \/ renameDimension

SpecRename == InitRename /\ [][NextRename]_vars

LastRenamed(op) == ds.cfa_dataset /\ last.op = op /\ last.exc = None

\* C18: after a renameVariable(old, new) that returns, on an aggregated
\* dataset or one of its groups, the variables table of that dataset or group
\* has the variable under new and not under old, and the CFA variable carries
\* the new name; likewise the dimensions table after renameDimension.
C18_RenameReachesTables ==
    /\ LastRenamed("renameVariable") =>
          /\ \E v \in s3tab.vars : v.parent = last.args[1] /\ v.name = last.args[3]
          /\ ~\E v \in s3tab.vars : v.parent = last.args[1] /\ v.name = last.args[2]
          /\ \E v \in cfa.vars : v.grp = CfaGroupOf(last.args[1]) /\ v.name = last.args[3]
    /\ LastRenamed("renameDimension") =>
          /\ <<last.args[1], last.args[3]>> \in s3tab.dims
          /\ <<last.args[1], last.args[2]>> \notin s3tab.dims

\* the part of it that is about the CFA structures and the master file
C18_RenameReachesCfa ==
    /\ LastRenamed("renameVariable") =>
          /\ \E v \in cfa.vars : v.grp = CfaGroupOf(last.args[1]) /\ v.name = last.args[3]
          /\ NcHasVariable(Current, last.args[1], last.args[3])
          /\ ~NcHasVariable(Current, last.args[1], last.args[2])
    /\ LastRenamed("renameDimension") =>
          /\ <<CfaGroupOf(last.args[1]), last.args[3]>> \in cfa.dims
          /\ <<last.args[1], last.args[3]>> \in nc.dims

\* a renameDimension on a dataset with a name its dimensions table lacks
\* raises APIException and changes nothing
C18_UnknownDimension ==
    [][(/\ last'.op = "renameDimension"
        /\ last'.args[1] = Dataset
        /\ ds.cfa_dataset
        /\ <<Dataset, last'.args[2]>> \notin s3tab.dims)
       => (/\ last'.exc = "APIException"
           /\ s3tab' = s3tab /\ cfa' = cfa /\ nc' = nc /\ store' = store
           /\ files' = files)]_vars

\* the variables property of a dataset (parent = Dataset) or of a group: the
\* names in _s3_variables, or for a dataset that is not aggregated the names
\* of the netCDF dataset's variables
VariablesTable(tab, ncs, aggregated, parent) ==
    IF aggregated \/ parent # Dataset
    THEN {v.name : v \in {w \in tab.vars : w.parent = parent}}
    ELSE {v.name : v \in {w \in ncs.vars : w.parent = parent}}

\* C19: a createVariable whose dimensions argument is not a tuple raises
\* APIException (the only call of createVariable that does) and leaves the
\* dataset as it was: the variables tables, the CFA structures and the master
\* file.
C19_NonTupleChangesNothing ==
    [][(last'.op = "createVariable" /\ last'.exc = "APIException")
       => (/\ VariablesTable(s3tab', nc', ds.cfa_dataset, last'.args[1])
                 = VariablesTable(s3tab, nc, ds.cfa_dataset, last'.args[1])
           /\ cfa' = cfa /\ nc' = nc)]_vars

\* the part of it that is about the CFA structures and the master file
C19_NonTupleCreatesNothing ==
    [][(last'.op = "createVariable" /\ last'.exc = "APIException")
       => (cfa' = cfa /\ nc' = nc /\ store' = store)]_vars

\* C20: an aggregated dataset opened for writing has the CFA group "root",
\* and still has it after any sequence of createGroup, renameGroup,
\* createDimension and createVariable calls.
C20_RootAlways ==
    (ds.state = "open" /\ ds.cfa_dataset) => "root" \in cfa.groups

\* the part of it that holds: the open creates the root group, and no call
\* but a renameGroup takes it away
C20_RootUnlessRenamed ==
    [][(ds.cfa_dataset /\ "root" \in cfa.groups /\ last'.op # "renameGroup")
       => "root" \in cfa'.groups]_vars

\* a dataset-level createDimension after the root group was renamed
C20_RootNotFound ==
    ~(/\ ds.cfa_dataset
      /\ "root" \notin cfa.groups
      /\ last.op = "createDimension"
      /\ last.exc = "CFAError")

----------------------------------------------------------------------------
(* Properties of the s3FileObject (SpecStream, SpecFile)                    *)

\* C21: a transport failure (ClientError) in connect, in the existence check,
\* in the size lookup, in a read, a write, a flush or a close reaches the
\* caller as IOException, never as the ClientError itself.
C21_TransportIsIOException == fo.exc # "ClientError"

\* the part of it that is about the size lookup and the read
C21_ReadFailureIsIOException ==
    fo.op \in {"read", "seek"} => fo.exc # "ClientError"

\* C22: a close() of an s3FileObject that is closed already has no further
\* effect: it uploads nothing, releases nothing and leaves the object closed.
C22_CloseOnce ==
    [][(fo.closed /\ fo'.op = "close")
       => (/\ s3' = s3
           /\ fo'.closed
           /\ fo'.exc = None
           /\ fo'.holds = fo.holds
           /\ fo'.buffer = fo.buffer)]_vars

\* a second close of an object whose first close released its connection
C22_Witness ==
    /\ fo.op = "close"
    /\ fo.reclosed
    /\ fo.closed
    /\ s3.released = 1

\* C23: a read, write, seek or flush on an s3FileObject that has been closed
\* raises ValueError and transfers nothing to or from the object store.
C23_ClosedRaisesValueError ==
    [][(fo.closed /\ fo'.op \in {"read", "write", "seek", "flush"})
       => (fo'.exc = "ValueError" /\ s3' = s3)]_vars

\* C24: a seek on an s3FileObject whose mode has a 'w' ('w', 'wb') raises
\* IOException and leaves the stream position as it was.
C24_SeekRefusedWhenWriting ==
    [][(ModeHasW(fo.mode) /\ fo'.op = "seek")
       => (fo'.exc = "IOException" /\ fo'.seek_pos = fo.seek_pos)]_vars

\* the same for the mode 'w' alone
C24_SeekRefusedForW ==
    [][(fo.mode = "w" /\ fo'.op = "seek")
       => (fo'.exc = "IOException" /\ fo'.seek_pos = fo.seek_pos)]_vars

\* the position a seek(offset, whence) of the last call asks for, counted
\* from position pos in a stream of the given size
SeekTarget(pos, size, offset, whence) ==
    IF whence = SEEK_SET THEN offset
    ELSE IF whence = SEEK_CUR THEN pos + offset
    ELSE size + offset

\* a seek on a connected object that is read, with no transport failure
ReadSeekStep ==
    /\ fo'.op = "seek"
    /\ ModeHasR(fo.mode) /\ fo.connected /\ s3.exists /\ ~fo'.failed

\* C25: in read mode seek(offset, whence) sets and returns the new absolute
\* position: offset for SEEK_SET, position + offset for SEEK_CUR, size +
\* offset for SEEK_END; a target outside [0, size) raises IOException and
\* leaves the position as it was.
C25_SeekSetsPosition ==
    [][ReadSeekStep =>
          LET target == SeekTarget(fo.seek_pos, Len(s3.object), fo'.args[1], fo'.args[2])
          IN  IF 0 <= target /\ target < Len(s3.object)
              THEN fo'.exc = None /\ fo'.seek_pos = target /\ fo'.ret = target
              ELSE fo'.exc = "IOException" /\ fo'.seek_pos = fo.seek_pos]_vars

\* the same for SEEK_SET and SEEK_CUR alone
C25_SeekSetAndCur ==
    [][(ReadSeekStep /\ fo'.args[2] # SEEK_END) =>
          LET target == SeekTarget(fo.seek_pos, Len(s3.object), fo'.args[1], fo'.args[2])
          IN  IF 0 <= target /\ target < Len(s3.object)
              THEN fo'.exc = None /\ fo'.seek_pos = target /\ fo'.ret = target
              ELSE fo'.exc = "IOException" /\ fo'.seek_pos = fo.seek_pos]_vars

\* a read(size), size >= 1, on a connected object that is read, from a
\* position inside the stream, with no transport failure
SizedReadStep ==
    /\ fo'.op = "read"
    /\ fo'.args[1] >= 1
    /\ ModeHasR(fo.mode) /\ fo.connected /\ s3.exists /\ ~fo'.failed
    /\ fo.seek_pos < Len(s3.object)

\* the bytes of the stream from pos on, size of them at most
BytesFrom(object, pos, size) == SubSeq(object, pos + 1, Min(pos + size, Len(object)))

\* C26: read(size) returns at most size bytes, from the current position and
\* clamped at the end of the object, and advances the position by the number
\* of bytes returned, so the position stays within 0..size of the object;
\* with range downloads or without.
C26_ReadAdvances ==
    [][SizedReadStep =>
          /\ fo'.exc = None
          /\ fo'.result = BytesFrom(s3.object, fo.seek_pos, fo'.args[1])
          /\ fo'.seek_pos = fo.seek_pos + Len(fo'.result)
          /\ fo'.seek_pos <= Len(s3.object)]_vars

\* the part of it that holds: with range downloads the bytes returned are
\* those of the range
C26_RangeBytes ==
    [][(SizedReadStep /\ fo.multipart_download) =>
          /\ fo'.exc = None
          /\ fo'.result = BytesFrom(s3.object, fo.seek_pos, fo'.args[1])]_vars

----------------------------------------------------------------------------
(* SpecGlob: glob() of a connected s3FileObject whose path is a key         *)
(* pattern, on a bucket that holds some keys.  A key and a pattern are      *)
(* sequences of characters; last.args is the path, last.data the listing of *)
(* the bucket, last.result the list glob returns.                           *)

MaxPattern == 2

KeyChars == {"a", "b"}
PatternChars == KeyChars \cup {"*", "?"}

Keys == {<<c>> : c \in KeyChars} \cup {<<c, d>> : c \in KeyChars, d \in KeyChars}
Patterns == UNION {[1..n -> PatternChars] : n \in 1..MaxPattern}

\* the order in which list_objects_v2 lists keys
KeyBefore(k1, k2) ==
    \/ \E i \in 1..Min(Len(k1), Len(k2)) :
          /\ \A j \in 1..(i - 1) : k1[j] = k2[j]
          /\ k1[i] = "a" /\ k2[i] = "b"
    \/ Len(k1) < Len(k2) /\ \A j \in 1..Len(k1) : k1[j] = k2[j]

RECURSIVE Listing(_)
Listing(keys) ==
    IF keys = {} THEN <<>>
    ELSE LET first == CHOOSE k \in keys : \A other \in keys \ {k} : KeyBefore(k, other)
         IN  <<first>> \o Listing(keys \ {first})

\* fnmatch.fnmatch(name, pat) for patterns of characters, * and ?
RECURSIVE fnmatch(_, _)
fnmatch(name, pat) ==
    IF pat = <<>> THEN name = <<>>
    ELSE IF Head(pat) = "*"
    THEN fnmatch(name, Tail(pat)) \/ (name # <<>> /\ fnmatch(Tail(name), pat))
    ELSE /\ name # <<>>
         /\ Head(pat) = "?" \/ Head(pat) = Head(name)
         /\ fnmatch(Tail(name), Tail(pat))

\* self._path.index(c), or len(self._path) when c is not in the path
IndexOf(path, c) ==
    IF \E i \in 1..Len(path) : path[i] = c
    THEN (CHOOSE i \in 1..Len(path) : path[i] = c /\ \A j \in 1..(i - 1) : path[j] # c) - 1
    ELSE Len(path)

HasPrefix(key, prefix) ==
    Len(prefix) <= Len(key) /\ \A i \in 1..Len(prefix) : key[i] = prefix[i]

IsWildcard(c) == c \in {"*", "?"}

\* glob(): the keys under the prefix that match the rest of the path
DoGlob(S, path, listing) ==
    LET pi == Min(IndexOf(path, "*"), IndexOf(path, "?"))
        prefix == SubSeq(path, 1, pi)
        wildcard == SubSeq(path, pi + 1, Len(path))
        page == SelectSeq(listing, LAMBDA key : HasPrefix(key, prefix))
        matches(fname) == fnmatch(fname, wildcard)
    IN  [S EXCEPT !.last = [NoLast EXCEPT !.op = "glob", !.args = path,
                                          !.data = listing,
                                          !.result = SelectSeq(page, matches)]]

InitGlob ==
    /\ \E path \in Patterns, keys \in SUBSET Keys :
          Starts([Blank(EmptyStore) EXCEPT
                     !.last = [NoLast EXCEPT !.args = path, !.data = Listing(keys)]])
    /\ \E wildcard \in BOOLEAN :
          /\ wildcard = \E i \in 1..Len(last.args) : IsWildcard(last.args[i])
          /\ fo = [NewFileObject("r", TRUE, wildcard, MaxParts) EXCEPT !.connected = TRUE]
    /\ s3 = [NoS3 EXCEPT !.exists = TRUE, !.bucket = TRUE]

glob ==
    /\ last.op = "none"
    /\ Becomes(DoGlob(Current, last.args, last.data))
    /\ UNCHANGED <<fo, s3>>

NextGlob == glob

SpecGlob == InitGlob /\ [][NextGlob]_vars

Range(seq) == {seq[i] : i \in 1..Len(seq)}

\* C27: glob() returns exactly the keys of the bucket that match the path as
\* a pattern, with * and ? as wildcards, whatever literal prefix the pattern
\* has before its first wildcard.
C27_GlobMatches ==
    (last.op = "glob" /\ \E i \in 1..Len(last.args) : IsWildcard(last.args[i])) =>
        Range(last.result) = {key \in Range(last.data) : fnmatch(key, last.args)}

\* the part of it that holds: a pattern that begins with a wildcard
C27_GlobNoPrefix ==
    (last.op = "glob" /\ IsWildcard(last.args[1])) =>
        Range(last.result) = {key \in Range(last.data) : fnmatch(key, last.args)}

\* the part of it that is about connect (SpecStream): in read mode a path
\* with a wildcard skips the existence check, and a path without one whose
\* object is absent raises IOException
C27_ConnectChecks ==
    (fo.op = "connect" /\ ModeHasR(fo.mode) /\ ~fo.failed) =>
        IF fo.wildcard THEN fo.exc = None
        ELSE (fo.exc = "IOException") = ~s3.exists


----------------------------------------------------------------------------
(* C28: within one slice write that spans several tiles, every index entry *)
(* assigns its slab to the subarray dataset of its own partition file,     *)
(* whatever open state the FileManager reports for that file: no entry     *)
(* uses the dataset left over from the entry processed before it, and no   *)
(* entry finds the local unassigned.                                       *)
C28_OwnDataset ==
    last.op = "setitem" =>
        \A k \in 1..Len(last.args) : last.args[k][2] = last.args[k][1]

\* the entries of a slice write are taken in the order of the index list
C28_IndexOrder ==
    last.op = "setitem" =>
        /\ Len(last.args) <= Len(IndexList(last.lo, last.hi))
        /\ \A k \in 1..Len(last.args) :
              last.args[k][1] = IndexList(last.lo, last.hi)[k].file

\* an entry whose file is reported in one of the four open states uses the
\* dataset of its own file
C28_OwnWhenOpen ==
    last.op = "setitem" =>
        \A k \in 1..Len(last.args) :
            Record(files, last.args[k][1]).open_state # DOES_NOT_EXIST =>
                last.args[k][2] = last.args[k][1]

\* a slice write in which an entry assigned its slab to the dataset of the
\* entry before it
C28_LeftOverUsed ==
    /\ last.op = "setitem"
    /\ last.exc = None
    /\ \E k \in 1..Len(last.args) :
          /\ last.args[k][2] # last.args[k][1]
          /\ last.args[k][2] # Unbound

----------------------------------------------------------------------------
(* C29: for one s3FileObject in write mode, over any sequence of write,    *)
(* flush and close calls, create_multipart_upload is issued at most once.  *)
C29_OneMultipartUpload ==
    ModeHasW(fo.mode) => s3.uploads <= 1

\* the pending part buffers never outnumber max_parts between calls
C29_BufferBound ==
    ModeHasW(fo.mode) => Len(fo.buffer) <= fo.max_parts

\* no call moves _current_part beyond the first part: no part is recorded for
\* completion and the upload is never completed
C29_NoPartUploaded ==
    fo.current_part <= 1

----------------------------------------------------------------------------
(* C30: a connection that connect() took from the pool is released when    *)
(* connect() itself fails: a connect() that raises leaves the file object  *)
(* holding no more connections than it held before the call.               *)
C30_ReleasedWhenConnectFails ==
    [][(fo'.op = "connect" /\ fo'.exc # None) => fo'.holds <= fo.holds]_vars

\* a close() that raises has released nothing: the connection stays held
C30_HeldWhenCloseFails ==
    [][(fo'.op = "close" /\ fo'.exc # None) =>
          (fo'.holds = fo.holds /\ s3'.released = s3.released)]_vars

\* the first close() that returns releases one connection
C30_ReleasedByClose ==
    [][(fo'.op = "close" /\ fo'.exc = None /\ ~fo.closed) =>
          (s3'.released = Bump(s3.released) /\ fo'.closed)]_vars
============================================================================
